---- MODULE Spec2Model ----
(***************************************************************************)
(* Verification model of the horizon deployment control plane.             *)
(*                                                                         *)
(* Part I models the pipeline state machine, InternalDeployV2              *)
(* (src/core/common/gitops.go, lines 147-259): one process per concurrent  *)
(* invocation, one action per numbered step of the code: a call that reads *)
(* or writes state another invocation can touch is a step of its own, and  *)
(* every call is recorded in the invocation's history (log).               *)
(* The collaborators (database managers, Git facade, CD backend) are the   *)
(* environment: each call either fails, leaving what it guards unchanged,  *)
(* or succeeds with the effect its interface names.                        *)
(*                                                                         *)
(* Part II models the rollout workload ability (src/unnamed/part_002):     *)
(* GetSteps and IsHealthy are functions of the objects the Kubernetes      *)
(* client returns; the objects are drawn in the initial state and one      *)
(* action applies the function and records what it returned. Action edits  *)
(* the unstructured object it is given, in place, and may be called again  *)
(* on the object it has edited.                                            *)
(*                                                                         *)
(* Part III models validateApplicationName                                 *)
(* (src/core/controller/application/controller.go, lines 711-736), a       *)
(* function of the name it is given.                                       *)
(*                                                                         *)
(* Part IV models the application controller's CreateApplication,          *)
(* CreateApplicationV2, UpdateApplication and DeleteApplication (same      *)
(* file, lines 234-635): one action per call, over the database records,   *)
(* the members and the Git repository of the applications.                 *)
(*                                                                         *)
(* Part V models the handler function of the auth middleware               *)
(* (src/unnamed/part_001, lines 16-47).                                    *)
(***************************************************************************)
EXTENDS Integers, Sequences, FiniteSets, TLC

\* ------------------------------------------------------------- bounds
\* Number of invocations of InternalDeployV2 started in one behaviour.
MaxInvocations == 2

\* ---------------------------------------------------------- constants
\* The two callers that may be inside InternalDeployV2 at the same time.
Procs == {1, 2}
\* The pipelinerun ids a caller may pass.
PipelinerunIDs == {1, 2}
\* The cluster ids a caller may pass as the target.
ClusterIDs == {1, 2}

StatusCreated == "created"
StatusCommitted == "committed"
StatusMerged == "merged"
StatusOK == "ok"
StatusFailed == "failed"
StatusCancelled == "cancelled"

ClusterStatusEmpty == "empty"
ClusterStatusFreeing == "freeing"
ClusterStatusFreed == "freed"

ErrNil == "nil"
ErrNotFound == "NotFound"
ErrDB == "DBError"
ErrGit == "GitError: cluster controller: internal deploy v2"
ErrGitRead == "GitError"
ErrCD == "CDError"

\* The nil *Pipelinerun / *Cluster.
NilPR == [ID |-> 0, ClusterID |-> 0, Status |-> "nil"]
NilCluster == [ID |-> 0, Status |-> "nil"]
NoResult == [resp |-> <<>>, err |-> ErrNil]

VARIABLES
    \* database: the PipelineRun record 1 and the Cluster record 1
    prStatus, prConfigCommit, clusterStatus,
    \* Git configuration repository of the cluster
    gitopsHead, masterHead, mergedCommit,
    \* CD backend
    cdCreated, cdRevision,
    \* per invocation: position, parameters and locals of InternalDeployV2
    pc, args, pr, cluster, commit, masterRevision, result,
    \* history: the collaborator calls of the current invocation, in order
    log,
    \* history: invocations started so far; the process of the latest one;
    \* whether two invocations were ever inside the function together
    nStarted, last, overlapped,
    \* rollout ability: the outcome of getRolloutByNode, the typed and the
    \* unstructured object it returned, the outcome of the pod list, and what the
    \* ability returned
    fetched, instance, un, pods, out,
    \* Action: the action names applied to un so far, un as it was when each of
    \* these calls began, and the pointer the latest call returned
    actions, given, returned,
    \* validateApplicationName: the name it is given
    name,
    \* application controller: the names of the application records in the
    \* database, of the applications that have members, and of the applications
    \* the Git repository holds; the latest call of the controller
    applicationMgr, memberManager, applicationGitRepo, invocation,
    \* auth middleware: the requests it has handled, in order
    handled

dbVars == <<prStatus, prConfigCommit, clusterStatus>>
gitVars == <<gitopsHead, masterHead, mergedCommit>>
cdVars == <<cdCreated, cdRevision>>
localVars == <<args, pr, cluster, commit, masterRevision>>
histVars == <<nStarted, last, overlapped>>
actionVars == <<actions, given, returned>>
controlVars == <<applicationMgr, memberManager, applicationGitRepo, invocation, handled>>
abilityVars == <<fetched, instance, un, pods, out, actions, given, returned, name,
                 applicationMgr, memberManager, applicationGitRepo, invocation, handled>>
deployVars == <<prStatus, prConfigCommit, clusterStatus, gitopsHead,
                masterHead, mergedCommit, cdCreated, cdRevision, pc, args, pr, cluster,
                commit, masterRevision, result, log, nStarted, last, overlapped>>
vars == <<prStatus, prConfigCommit, clusterStatus, gitopsHead,
          masterHead, mergedCommit, cdCreated, cdRevision, pc, args, pr, cluster,
          commit, masterRevision, result, log, nStarted, last, overlapped,
          fetched, instance, un, pods, out, actions, given, returned, name,
          applicationMgr, memberManager, applicationGitRepo, invocation, handled>>

\* ------------------------------------------------------------ helpers
Max(a, b) == IF a >= b THEN a ELSE b

\* A commit id no branch holds yet.
FreshCommit == Max(gitopsHead, masterHead) + 1

\* One collaborator call as the history records it: the call site, the status it
\* writes or reads (if any), its integer argument, whether it succeeded, and the
\* id or revision it returned.
Entry(call, state, arg, ok, ret) ==
    [call |-> call, state |-> state, arg |-> arg, ok |-> ok, ret |-> ret]

Active(i) == pc[i] \notin {"idle", "returned"}

\* The last of the calls `entries` returned an error and the function returns (nil, e).
ReturnErr(i, e, entries) ==
    /\ pc' = [pc EXCEPT ![i] = "returned"]
    /\ result' = [result EXCEPT ![i] = [resp |-> <<>>, err |-> e]]
    /\ log' = [log EXCEPT ![i] = @ \o entries]

\* The calls `entries` succeeded and the function goes on to its next step.
Goto(i, next, entries) ==
    /\ pc' = [pc EXCEPT ![i] = next]
    /\ log' = [log EXCEPT ![i] = @ \o entries]
    /\ UNCHANGED result

\* ---------------------------------------- values of the rollout ability
\* A *int32: nil, or a pointer to v.
NilPtr == [nil |-> TRUE, v |-> 0]
Ptr(v) == [nil |-> FALSE, v |-> v]

\* One rolloutsv1alpha1.CanaryStep, by the two fields the ability reads; a step
\* with neither (a pause, an analysis) is a PauseStep.
WeightStep(w) == [SetWeight |-> Ptr(w), SetReplica |-> NilPtr]
ReplicaStep(n) == [SetWeight |-> NilPtr, SetReplica |-> Ptr(n)]
PauseStep == [SetWeight |-> NilPtr, SetReplica |-> NilPtr]

\* Spec.Strategy.Canary: the nil *CanaryStrategy, or one with the steps declared.
NilCanary == [nil |-> TRUE, Steps |-> <<>>]
Canary(steps) == [nil |-> FALSE, Steps |-> steps]

\* A map[string]string without entries.
NoAnnotations == [k \in {} |-> ""]

\* The Rollout as the ability reads it.
Rollout(replicas, canary, annotations, podSpec, stepHash, stepIndex) ==
    [Spec |-> [Replicas |-> replicas, Paused |-> FALSE,
               Strategy |-> [Canary |-> canary],
               Template |-> [Annotations |-> annotations, Spec |-> podSpec]],
     Status |-> [CurrentStepHash |-> stepHash, CurrentStepIndex |-> stepIndex]]

\* The nil *Rollout getRolloutByNode returns beside an error.
NilInstance == Rollout(NilPtr, NilCanary, NoAnnotations, "", <<>>, NilPtr)

\* The errors of the ability.
ErrGetFailed == "GetFailed: failed to get rollout in k8s"
ErrConvert == "ConvertError"
ErrNestedBool == "status.autoPromote: accessor error"
ErrListPods == "ListPodsError"

\* workload.Step. Extra is a *string: nil, or the JSON text {"currentIndex":n},
\* held by the n it encodes.
NilExtra == [nil |-> TRUE, currentIndex |-> 0]
Step_(index, total, replicas, paused, autoPromote, extra) ==
    [Index |-> index, Total |-> total, Replicas |-> replicas,
     ManualPaused |-> paused, AutoPromote |-> autoPromote, Extra |-> extra]
NilStep == Step_(0, 0, <<>>, FALSE, FALSE, NilExtra)

\* What a call of the ability came to: nothing yet ("none"), a return, or a
\* nil-pointer panic.
NoRet == [op |-> "none", kind |-> "none", step |-> NilStep, healthy |-> FALSE, err |-> ErrNil]
StepRet(step) == [op |-> "GetSteps", kind |-> "return", step |-> step, healthy |-> FALSE, err |-> ErrNil]
StepErr(e) == [op |-> "GetSteps", kind |-> "return", step |-> NilStep, healthy |-> FALSE, err |-> e]
Panic(op) == [op |-> op, kind |-> "panic", step |-> NilStep, healthy |-> FALSE, err |-> ErrNil]
HealthyRet(h, e) == [op |-> "IsHealthy", kind |-> "return", step |-> NilStep, healthy |-> h, err |-> e]

\* The unstructured object, by the field GetSteps reads from it: status.autoPromote
\* is absent, a bool, or a value of another type.
Unstructured(autoPromote) == [status |-> [autoPromote |-> autoPromote]]
NoPods == [err |-> FALSE, Items |-> <<>>]

\* Action has not been called, and no name is being validated.
ActionIdle ==
    /\ actions = <<>>
    /\ given = <<>>
    /\ returned = "none"
ValidateIdle == name = <<>>

\* No call of the application controller has been made, on an empty database
\* and an empty Git repository, and the middleware has handled no request.
NoInvocation ==
    [op |-> "none", name |-> <<>>, hard |-> FALSE, templateInput |-> FALSE,
     log |-> <<>>, kind |-> "none", resp |-> FALSE, err |-> ErrNil]
ApplicationIdle ==
    /\ applicationMgr = {}
    /\ memberManager = {}
    /\ applicationGitRepo = {}
    /\ invocation = NoInvocation
AuthIdle == handled = <<>>
ControlIdle == ApplicationIdle /\ AuthIdle

\* No call of the ability is under way: the deployment is modelled alone.
AbilityIdle ==
    /\ fetched = "none"
    /\ instance = NilInstance
    /\ un = Unstructured("absent")
    /\ pods = NoPods
    /\ out = NoRet
    /\ ActionIdle
    /\ ValidateIdle
    /\ ControlIdle

\* The deployment before any invocation.
DeployIdle ==
    /\ prStatus = StatusCreated
    /\ prConfigCommit = 0
    /\ clusterStatus \in {ClusterStatusFreeing, ClusterStatusFreed}
    /\ gitopsHead = 0
    /\ masterHead = 0
    /\ mergedCommit = 0
    /\ cdCreated = FALSE
    /\ cdRevision = 0
    /\ pc = [i \in Procs |-> "idle"]
    /\ args = [i \in Procs |-> [clusterID |-> 0, pipelinerunID |-> 0]]
    /\ pr = [i \in Procs |-> NilPR]
    /\ cluster = [i \in Procs |-> NilCluster]
    /\ commit = [i \in Procs |-> 0]
    /\ masterRevision = [i \in Procs |-> 0]
    /\ result = [i \in Procs |-> NoResult]
    /\ log = [i \in Procs |-> <<>>]
    /\ nStarted = 0
    /\ last = 0
    /\ overlapped = FALSE

Init == DeployIdle /\ AbilityIdle

\* A caller invokes InternalDeployV2(ctx, clusterID, pipelinerunID, r).
Start(i) ==
    /\ pc[i] \in {"idle", "returned"}
    /\ nStarted < MaxInvocations
    /\ \E c \in ClusterIDs, p \in PipelinerunIDs :
          args' = [args EXCEPT ![i] = [clusterID |-> c, pipelinerunID |-> p]]
    /\ pc' = [pc EXCEPT ![i] = "getPR"]
    /\ pr' = [pr EXCEPT ![i] = NilPR]
    /\ cluster' = [cluster EXCEPT ![i] = NilCluster]
    /\ commit' = [commit EXCEPT ![i] = 0]
    /\ masterRevision' = [masterRevision EXCEPT ![i] = 0]
    /\ result' = [result EXCEPT ![i] = NoResult]
    /\ log' = [log EXCEPT ![i] = <<>>]
    /\ nStarted' = nStarted + 1
    /\ overlapped' = (overlapped \/ \E j \in Procs \ {i} : Active(j))
    /\ last' = i
    /\ UNCHANGED <<dbVars, gitVars, cdVars, abilityVars>>

\* The pipelinerun table: one PipelineRun, id 1, owned by cluster 1; any other
\* id is absent and the manager returns (nil, nil).
PipelinerunRow(id) ==
    IF id = 1 THEN [ID |-> 1, ClusterID |-> 1, Status |-> prStatus] ELSE NilPR

\* Faulty variant of PRValid: the owner of the run is not compared with the target.
PRValid_NoOwnerCheck(p, clusterID) == p # NilPR

\* Line 157: the run exists and belongs to the target cluster.
PRValid(p, clusterID) == p # NilPR /\ p.ClusterID = clusterID

\* 1. pr, err := c.pipelinerunMgr.GetByID(ctx, pipelinerunID), and the validation.
GetPR(i) ==
    /\ pc[i] = "getPR"
    /\ \/ /\ ReturnErr(i, ErrDB, <<Entry("pipelinerunMgr.GetByID", "", args[i].pipelinerunID, FALSE, 0)>>)
          /\ UNCHANGED pr
       \/ LET p == PipelinerunRow(args[i].pipelinerunID)
              e == <<Entry("pipelinerunMgr.GetByID", "", args[i].pipelinerunID, TRUE, p.ID)>>
          IN  /\ pr' = [pr EXCEPT ![i] = p]
              /\ IF PRValid(p, args[i].clusterID)
                    THEN Goto(i, "getModels", e)
                    ELSE ReturnErr(i, ErrNotFound, e)
    /\ UNCHANGED <<dbVars, gitVars, cdVars, args, cluster, commit, masterRevision, histVars, abilityVars>>

\* A collaborator read that touches none of the modelled state, as the history
\* records it.
Read(call, ok) == Entry(call, "", 0, ok, 0)

\* 2. "get some relevant models": cluster, err := c.clusterMgr.GetByID(ctx, clusterID),
\* then c.applicationMgr.GetByID and c.templateReleaseMgr.GetByTemplateNameAndRelease,
\* each returning its error at once. The last two read nothing another invocation
\* writes, so the three calls are one step.
GetModels(i) ==
    /\ pc[i] = "getModels"
    /\ \/ /\ ReturnErr(i, ErrDB, <<Entry("clusterMgr.GetByID", "", args[i].clusterID, FALSE, 0)>>)
          /\ UNCHANGED cluster
       \/ LET c == Entry("clusterMgr.GetByID", clusterStatus, args[i].clusterID, TRUE, 0)
              app == "applicationMgr.GetByID"
              tr == "templateReleaseMgr.GetByTemplateNameAndRelease"
          IN  /\ cluster' = [cluster EXCEPT ![i] = [ID |-> args[i].clusterID, Status |-> clusterStatus]]
              /\ \/ ReturnErr(i, ErrDB, <<c, Read(app, FALSE)>>)
                 \/ ReturnErr(i, ErrDB, <<c, Read(app, TRUE), Read(tr, FALSE)>>)
                 \/ Goto(i, "updatePipelineOutput", <<c, Read(app, TRUE), Read(tr, TRUE)>>)
    /\ UNCHANGED <<dbVars, gitVars, cdVars, args, pr, commit, masterRevision, histVars, abilityVars>>

\* Faulty variant of UpdatePipelineOutput: the error of the write is dropped and
\* the invocation goes on with the zero commit.
UpdatePipelineOutput_IgnoresError(i) ==
    /\ pc[i] = "updatePipelineOutput"
    /\ \/ /\ Goto(i, "updateConfigCommit", <<Entry("UpdatePipelineOutput", "", 0, FALSE, 0)>>)
          /\ UNCHANGED <<gitVars, commit>>
       \/ \E c \in {FreshCommit} \cup (IF gitopsHead # 0 THEN {gitopsHead} ELSE {}) :
             /\ gitopsHead' = c
             /\ commit' = [commit EXCEPT ![i] = c]
             /\ Goto(i, "updateConfigCommit", <<Entry("UpdatePipelineOutput", "", 0, TRUE, c)>>)
             /\ UNCHANGED <<masterHead, mergedCommit>>
    /\ UNCHANGED <<dbVars, cdVars, args, pr, cluster, masterRevision, histVars, abilityVars>>

\* 3. commit, err := c.clusterGitRepo.UpdatePipelineOutput(..., r): the payload r
\* (opaque, passed through) is committed to the cluster's gitops branch. When the
\* branch has a head already, whether the write makes a new commit or is a no-op
\* returning that head is the facade's choice (it depends on r being what the
\* branch holds).
UpdatePipelineOutput(i) ==
    /\ pc[i] = "updatePipelineOutput"
    /\ \/ /\ ReturnErr(i, ErrGit, <<Entry("UpdatePipelineOutput", "", 0, FALSE, 0)>>)
          /\ UNCHANGED <<gitVars, commit>>
       \/ \E c \in {FreshCommit} \cup (IF gitopsHead # 0 THEN {gitopsHead} ELSE {}) :
             /\ gitopsHead' = c
             /\ commit' = [commit EXCEPT ![i] = c]
             /\ Goto(i, "updateConfigCommit", <<Entry("UpdatePipelineOutput", "", 0, TRUE, c)>>)
             /\ UNCHANGED <<masterHead, mergedCommit>>
    /\ UNCHANGED <<dbVars, cdVars, args, pr, cluster, masterRevision, histVars, abilityVars>>

\* 4. c.pipelinerunMgr.UpdateConfigCommitByID(ctx, pr.ID, commit)
UpdateConfigCommit(i) ==
    /\ pc[i] = "updateConfigCommit"
    /\ \/ /\ ReturnErr(i, ErrDB, <<Entry("UpdateConfigCommitByID", "", commit[i], FALSE, 0)>>)
          /\ UNCHANGED prConfigCommit
       \/ /\ prConfigCommit' = commit[i]
          /\ Goto(i, "statusCommitted", <<Entry("UpdateConfigCommitByID", "", commit[i], TRUE, 0)>>)
    /\ UNCHANGED <<prStatus, clusterStatus, gitVars, cdVars, localVars, histVars, abilityVars>>

\* The closure updatePRStatus: c.pipelinerunMgr.UpdateStatusByID(ctx, pr.ID, pState).
UpdatePRStatus(i, pState, next) ==
    \/ /\ ReturnErr(i, ErrDB, <<Entry("UpdateStatusByID", pState, 0, FALSE, 0)>>)
       /\ UNCHANGED prStatus
    \/ /\ prStatus' = pState
       /\ Goto(i, next, <<Entry("UpdateStatusByID", pState, 0, TRUE, 0)>>)

\* Faulty variants of the states passed to updatePRStatus: a wrong constant.
PStateAfterCommit_Merged == StatusMerged
PStateAfterMerge_OK == StatusOK
PStateAfterDeploy_Merged == StatusMerged

\* The states the three calls of updatePRStatus pass (lines 198, 207, 251).
PStateAfterCommit == StatusCommitted
PStateAfterMerge == StatusMerged
PStateAfterDeploy == StatusOK

\* Faulty variant of SetCommitted: a run loaded with a status past Created skips
\* the write.
SetCommitted_SkipsWhenAhead(i) ==
    /\ pc[i] = "statusCommitted"
    /\ IF pr[i].Status # StatusCreated
          THEN Goto(i, "mergeBranch", <<>>) /\ UNCHANGED prStatus
          ELSE UpdatePRStatus(i, PStateAfterCommit, "mergeBranch")
    /\ UNCHANGED <<prConfigCommit, clusterStatus, gitVars, cdVars, localVars, histVars, abilityVars>>

\* updatePRStatus(prmodels.StatusCommitted, commit)
SetCommitted(i) ==
    /\ pc[i] = "statusCommitted"
    /\ UpdatePRStatus(i, PStateAfterCommit, "mergeBranch")
    /\ UNCHANGED <<prConfigCommit, clusterStatus, gitVars, cdVars, localVars, histVars, abilityVars>>

\* Faulty variant of MergeBranch: a failed merge marks the run failed.
MergeBranch_MarksFailed(i) ==
    /\ pc[i] = "mergeBranch"
    /\ \/ /\ ReturnErr(i, ErrGit, <<Entry("MergeBranch", "", 0, FALSE, 0)>>)
          /\ prStatus' = StatusFailed
          /\ UNCHANGED <<gitVars, masterRevision>>
       \/ \E m \in (IF mergedCommit = gitopsHead THEN {masterHead} ELSE {FreshCommit}) :
             /\ masterHead' = m
             /\ mergedCommit' = gitopsHead
             /\ masterRevision' = [masterRevision EXCEPT ![i] = m]
             /\ Goto(i, "statusMerged", <<Entry("MergeBranch", "", 0, TRUE, m)>>)
             /\ UNCHANGED <<gitopsHead, prStatus>>
    /\ UNCHANGED <<prConfigCommit, clusterStatus, cdVars, args, pr, cluster, commit, histVars, abilityVars>>

\* 5. masterRevision, err := c.clusterGitRepo.MergeBranch(...): the gitops branch is
\* merged into master and the new master revision returned. When master already
\* holds the head of the gitops branch there is nothing to merge: the call fails or
\* answers with the master head there is.
MergeBranch(i) ==
    /\ pc[i] = "mergeBranch"
    /\ \/ /\ ReturnErr(i, ErrGit, <<Entry("MergeBranch", "", 0, FALSE, 0)>>)
          /\ UNCHANGED <<gitVars, masterRevision>>
       \/ \E m \in (IF mergedCommit = gitopsHead THEN {masterHead} ELSE {FreshCommit}) :
             /\ masterHead' = m
             /\ mergedCommit' = gitopsHead
             /\ masterRevision' = [masterRevision EXCEPT ![i] = m]
             /\ Goto(i, "statusMerged", <<Entry("MergeBranch", "", 0, TRUE, m)>>)
             /\ UNCHANGED gitopsHead
    /\ UNCHANGED <<dbVars, cdVars, args, pr, cluster, commit, histVars, abilityVars>>

\* updatePRStatus(prmodels.StatusMerged, masterRevision)
SetMerged(i) ==
    /\ pc[i] = "statusMerged"
    /\ UpdatePRStatus(i, PStateAfterMerge, "createCluster")
    /\ UNCHANGED <<prConfigCommit, clusterStatus, gitVars, cdVars, localVars, histVars, abilityVars>>

\* Faulty variant of NeedsReset: the reset of a freed cluster is left out.
NeedsReset_Never(i) == FALSE

\* 7. if cluster.Status == common.ClusterStatusFreed
NeedsReset(i) == cluster[i].Status = ClusterStatusFreed

\* Faulty variant of CreateClusterInCD: the error of GetEnvValue is dropped.
CreateClusterInCD_IgnoresEnvError(i) ==
    /\ pc[i] = "createCluster"
    /\ LET region == "regionMgr.GetRegionEntity"
           env == "GetEnvValue"
           create == "CreateCluster"
       IN  \/ /\ ReturnErr(i, ErrDB, <<Read(region, FALSE)>>)
              /\ UNCHANGED cdCreated
           \/ /\ \E ok \in BOOLEAN : ReturnErr(i, ErrCD, <<Read(region, TRUE), Read(env, ok), Read(create, FALSE)>>)
              /\ UNCHANGED cdCreated
           \/ /\ cdCreated' = TRUE
              /\ \E ok \in BOOLEAN :
                    Goto(i, IF NeedsReset(i) THEN "updateCluster" ELSE "deployCluster",
                         <<Read(region, TRUE), Read(env, ok), Read(create, TRUE)>>)
    /\ UNCHANGED <<dbVars, gitVars, cdRevision, localVars, histVars, abilityVars>>

\* 6. "create cluster in cd system": c.regionMgr.GetRegionEntity, then
\* c.clusterGitRepo.GetEnvValue (its error is returned unwrapped) and GetRepoInfo
\* (which cannot fail), then c.cd.CreateCluster; each error is returned at once.
\* The reads touch nothing another invocation writes, so they are one step with
\* the create.
CreateClusterInCD(i) ==
    /\ pc[i] = "createCluster"
    /\ LET region == "regionMgr.GetRegionEntity"
           env == "GetEnvValue"
           create == "CreateCluster"
       IN  \/ /\ ReturnErr(i, ErrDB, <<Read(region, FALSE)>>)
              /\ UNCHANGED cdCreated
           \/ /\ ReturnErr(i, ErrGitRead, <<Read(region, TRUE), Read(env, FALSE)>>)
              /\ UNCHANGED cdCreated
           \/ /\ ReturnErr(i, ErrCD, <<Read(region, TRUE), Read(env, TRUE), Read(create, FALSE)>>)
              /\ UNCHANGED cdCreated
           \/ /\ cdCreated' = TRUE
              /\ Goto(i, IF NeedsReset(i) THEN "updateCluster" ELSE "deployCluster",
                      <<Read(region, TRUE), Read(env, TRUE), Read(create, TRUE)>>)
    /\ UNCHANGED <<dbVars, gitVars, cdRevision, localVars, histVars, abilityVars>>

\* Faulty variant of UpdateCluster: after a failed write the invocation waits, and
\* nothing wakes it.
UpdateCluster_WaitsOnError(i) ==
    /\ pc[i] = "updateCluster"
    /\ \/ /\ Goto(i, "waiting", <<Entry("clusterMgr.UpdateByID", ClusterStatusEmpty, cluster[i].ID, FALSE, 0)>>)
          /\ cluster' = [cluster EXCEPT ![i] = NilCluster]
          /\ UNCHANGED clusterStatus
       \/ /\ clusterStatus' = ClusterStatusEmpty
          /\ cluster' = [cluster EXCEPT ![i].Status = ClusterStatusEmpty]
          /\ Goto(i, "deployCluster", <<Entry("clusterMgr.UpdateByID", ClusterStatusEmpty, cluster[i].ID, TRUE, 0)>>)
    /\ UNCHANGED <<prStatus, prConfigCommit, gitVars, cdVars, args, pr, commit, masterRevision, histVars, abilityVars>>

\* cluster.Status = common.ClusterStatusEmpty
\* cluster, err = c.clusterMgr.UpdateByID(ctx, cluster.ID, cluster)
UpdateCluster(i) ==
    /\ pc[i] = "updateCluster"
    /\ \/ /\ ReturnErr(i, ErrDB, <<Entry("clusterMgr.UpdateByID", ClusterStatusEmpty, cluster[i].ID, FALSE, 0)>>)
          /\ cluster' = [cluster EXCEPT ![i] = NilCluster]
          /\ UNCHANGED clusterStatus
       \/ /\ clusterStatus' = ClusterStatusEmpty
          /\ cluster' = [cluster EXCEPT ![i].Status = ClusterStatusEmpty]
          /\ Goto(i, "deployCluster", <<Entry("clusterMgr.UpdateByID", ClusterStatusEmpty, cluster[i].ID, TRUE, 0)>>)
    /\ UNCHANGED <<prStatus, prConfigCommit, gitVars, cdVars, args, pr, commit, masterRevision, histVars, abilityVars>>

\* Faulty variant of DeployRevision: the config commit is deployed.
DeployRevision_ConfigCommit(i) == commit[i]

\* Line 245: Revision: masterRevision
DeployRevision(i) == masterRevision[i]

\* Faulty variant of DeployCluster: a failed deploy puts the cluster record back to
\* Freed when the invocation had reset it.
DeployCluster_RestoresFreed(i) ==
    /\ pc[i] = "deployCluster"
    /\ \/ /\ ReturnErr(i, ErrCD, <<Entry("DeployCluster", "", DeployRevision(i), FALSE, 0)>>)
          /\ clusterStatus' = IF \E k \in 1..Len(log[i]) : log[i][k].call = "clusterMgr.UpdateByID"
                              THEN ClusterStatusFreed ELSE clusterStatus
          /\ UNCHANGED cdRevision
       \/ /\ cdRevision' = DeployRevision(i)
          /\ Goto(i, "statusOK", <<Entry("DeployCluster", "", DeployRevision(i), TRUE, 0)>>)
          /\ UNCHANGED clusterStatus
    /\ UNCHANGED <<prStatus, prConfigCommit, gitVars, cdCreated, localVars, histVars, abilityVars>>

\* 8. c.cd.DeployCluster(ctx, &cd.DeployClusterParams{..., Revision: masterRevision})
DeployCluster(i) ==
    /\ pc[i] = "deployCluster"
    /\ \/ /\ ReturnErr(i, ErrCD, <<Entry("DeployCluster", "", DeployRevision(i), FALSE, 0)>>)
          /\ UNCHANGED cdRevision
       \/ /\ cdRevision' = DeployRevision(i)
          /\ Goto(i, "statusOK", <<Entry("DeployCluster", "", DeployRevision(i), TRUE, 0)>>)
    /\ UNCHANGED <<dbVars, gitVars, cdCreated, localVars, histVars, abilityVars>>

\* Lines 255-258: the response of a run whose last status write succeeded.
Response(i) == <<pr[i].ID, commit[i]>>

\* Faulty variant of SetOK: the error of the last status write is dropped and the
\* response is returned all the same.
SetOK_IgnoresError(i) ==
    /\ pc[i] = "statusOK"
    /\ \E ok \in BOOLEAN :
          /\ prStatus' = IF ok THEN PStateAfterDeploy ELSE prStatus
          /\ pc' = [pc EXCEPT ![i] = "returned"]
          /\ result' = [result EXCEPT ![i] = [resp |-> Response(i), err |-> ErrNil]]
          /\ log' = [log EXCEPT ![i] = Append(@, Entry("UpdateStatusByID", PStateAfterDeploy, 0, ok, 0))]
    /\ UNCHANGED <<prConfigCommit, clusterStatus, gitVars, cdVars, localVars, histVars, abilityVars>>

\* 9. updatePRStatus(prmodels.StatusOK, masterRevision), then the return.
SetOK(i) ==
    /\ pc[i] = "statusOK"
    /\ \/ /\ ReturnErr(i, ErrDB, <<Entry("UpdateStatusByID", PStateAfterDeploy, 0, FALSE, 0)>>)
          /\ UNCHANGED prStatus
       \/ /\ prStatus' = PStateAfterDeploy
          /\ pc' = [pc EXCEPT ![i] = "returned"]
          /\ result' = [result EXCEPT ![i] = [resp |-> Response(i), err |-> ErrNil]]
          /\ log' = [log EXCEPT ![i] = Append(@, Entry("UpdateStatusByID", PStateAfterDeploy, 0, TRUE, 0))]
    /\ UNCHANGED <<prConfigCommit, clusterStatus, gitVars, cdVars, localVars, histVars, abilityVars>>

Step(i) ==
    \/ Start(i)
    \/ GetPR(i)
    \/ GetModels(i)
    \/ UpdatePipelineOutput(i)
    \/ UpdateConfigCommit(i)
    \/ SetCommitted(i)
    \/ MergeBranch(i)
    \/ SetMerged(i)
    \/ CreateClusterInCD(i)
    \/ UpdateCluster(i)
    \/ DeployCluster(i)
    \/ SetOK(i)

Next == \E i \in Procs : Step(i)

Spec == Init /\ [][Next]_vars

\* The steps of an invocation under way: each is a blocking collaborator call and
\* what the function does with its result.
Run(i) ==
    \/ GetPR(i)
    \/ GetModels(i)
    \/ UpdatePipelineOutput(i)
    \/ UpdateConfigCommit(i)
    \/ SetCommitted(i)
    \/ MergeBranch(i)
    \/ SetMerged(i)
    \/ CreateClusterInCD(i)
    \/ UpdateCluster(i)
    \/ DeployCluster(i)
    \/ SetOK(i)

\* Every collaborator call returns: while an invocation is under way, one of the
\* invocations under way takes its next step. Whether a caller invokes the
\* function at all is left open.
SpecCallsReturn == Init /\ [][Next]_vars /\ WF_vars(\E i \in Procs : Run(i))

\* ------------------------------------------------- reading the history
\* Position in the order Created < Committed < Merged < OK.
Rank(s) ==
    CASE s = StatusCreated -> 0
      [] s = StatusCommitted -> 1
      [] s = StatusMerged -> 2
      [] s = StatusOK -> 3
      [] OTHER -> -1

Returned(i) == pc[i] = "returned"
Succeeded(i) == Returned(i) /\ result[i].err = ErrNil
Failed(i) == Returned(i) /\ result[i].err # ErrNil

IsPRWrite(e) == e.call \in {"UpdateConfigCommitByID", "UpdateStatusByID"}
PRWrites(i) == SelectSeq(log[i], IsPRWrite)

\* Positions of the successful calls of a call site in invocation i's history.
OkAt(i, call, state) ==
    {k \in 1..Len(log[i]) : log[i][k].call = call /\ log[i][k].state = state /\ log[i][k].ok}
Before(S, k) == \E j \in S : j < k

\* The status the invocation's last successful status write left, or the status
\* it loaded when it has written none.
StatusWrites(i) == {k \in 1..Len(log[i]) : log[i][k].call = "UpdateStatusByID" /\ log[i][k].ok}
LastStage(i) ==
    IF StatusWrites(i) = {} THEN pr[i].Status
    ELSE log[i][CHOOSE k \in StatusWrites(i) : \A j \in StatusWrites(i) : j <= k].state

\* Invocation i is the only one inside or after the function: it started last
\* and no two invocations ever overlapped.
Alone(i) == last = i /\ ~overlapped

\* ---------------------------------------------------------------- claims

\* C1: in every invocation that returns a response, the writes to the PipelineRun
\* are exactly, in this order: ConfigCommit (the commit of the response), status
\* Committed, status Merged, status OK; each succeeded and there is no other.
C1_SuccessWritesInOrder ==
    \A i \in Procs : result[i].resp # <<>> =>
        LET w == PRWrites(i) IN
        /\ Len(w) = 4
        /\ \A k \in 1..4 : w[k].ok
        /\ w[1].call = "UpdateConfigCommitByID" /\ w[1].arg = result[i].resp[2]
        /\ w[2].call = "UpdateStatusByID" /\ w[2].state = StatusCommitted
        /\ w[3].call = "UpdateStatusByID" /\ w[3].state = StatusMerged
        /\ w[4].call = "UpdateStatusByID" /\ w[4].state = StatusOK

\* An invocation has returned a response.
C1_Witness == \E i \in Procs : Succeeded(i) /\ result[i].resp # <<>>

\* C2: when the run loaded by id is absent or owned by another cluster, the
\* invocation has returned NotFound and the load is its only collaborator call:
\* no Git call, no CD call, no write to the PipelineRun or the Cluster.
C2_NotFoundBeforeAnyEffect ==
    \A i \in Procs :
        (/\ Len(log[i]) >= 1
         /\ log[i][1].call = "pipelinerunMgr.GetByID" /\ log[i][1].ok
         /\ (pr[i] = NilPR \/ pr[i].ClusterID # args[i].clusterID))
        => /\ Returned(i)
           /\ result[i] = [resp |-> <<>>, err |-> ErrNotFound]
           /\ Len(log[i]) = 1

\* A run owned by cluster 1 was deployed onto cluster 2, after an earlier
\* invocation had advanced the run.
C2_Witness ==
    \E i \in Procs :
        /\ Returned(i) /\ result[i].err = ErrNotFound
        /\ pr[i] # NilPR /\ pr[i].ClusterID # args[i].clusterID
        /\ prStatus # StatusCreated

\* C3: an invocation that returned an error attempted no status write other than
\* Committed, Merged, OK; completed none but Committed and Merged; and, when it
\* ran alone, the persisted status is the one of its last completed stage (the
\* status it loaded when it completed none).
C3_FailureKeepsLastStage ==
    \A i \in Procs : Failed(i) =>
        /\ \A k \in 1..Len(log[i]) : log[i][k].call = "UpdateStatusByID" =>
              /\ log[i][k].state \in {StatusCommitted, StatusMerged, StatusOK}
              /\ log[i][k].ok => log[i][k].state \in {StatusCommitted, StatusMerged}
        /\ (Alone(i) /\ pr[i] # NilPR) =>
              /\ prStatus = LastStage(i)
              /\ prStatus \notin {StatusFailed, StatusCancelled}

\* A lone invocation on a Created run failed after it had persisted Merged.
C3_Witness ==
    \E i \in Procs :
        /\ Failed(i) /\ Alone(i)
        /\ pr[i].Status = StatusCreated
        /\ LastStage(i) = StatusMerged

\* C4: in the calls of one invocation only the last may have failed, a failed call
\* ends the invocation, and no call site is called twice.
C4_AbortAtFirstFailure ==
    \A i \in Procs :
        LET n == Len(log[i]) IN
        /\ \A k \in 1..(n - 1) : log[i][k].ok
        /\ (n > 0 /\ ~log[i][n].ok) => Failed(i)
        /\ Cardinality({<<log[i][k].call, log[i][k].state>> : k \in 1..n}) = n

\* An invocation failed late, at or after the read of the region entity.
C4_Witness ==
    \E i \in Procs :
        /\ Failed(i) /\ Len(log[i]) >= 10
        /\ ~log[i][Len(log[i])].ok

\* C5: across invocations that follow one another (no two overlap), the persisted
\* status of the PipelineRun never moves backwards in Created < Committed <
\* Merged < OK.
C5_StatusNeverMovesBack ==
    [][~overlapped' => Rank(prStatus') >= Rank(prStatus)]_vars

\* C6: an invocation that calls DeployCluster after having loaded the cluster as
\* Freed has persisted it as Empty before, and no invocation is about to call
\* DeployCluster while the persisted cluster status is Freed.
C6_FreedResetBeforeDeploy ==
    \A i \in Procs :
        /\ pc[i] = "deployCluster" => clusterStatus # ClusterStatusFreed
        /\ \A k \in 1..Len(log[i]) : log[i][k].call = "DeployCluster" =>
              (OkAt(i, "clusterMgr.GetByID", ClusterStatusFreed) # {}
                  => Before(OkAt(i, "clusterMgr.UpdateByID", ClusterStatusEmpty), k))

\* An invocation that loaded the cluster as Freed has called DeployCluster.
C6_Witness ==
    \E i \in Procs :
        /\ OkAt(i, "clusterMgr.GetByID", ClusterStatusFreed) # {}
        /\ OkAt(i, "DeployCluster", "") # {}
        /\ clusterStatus = ClusterStatusEmpty

\* The effects of the only invocation started so far.
ConfigWritten == gitopsHead # 0
BranchMerged == masterHead # 0
DeployTriggered == cdRevision # 0

\* C7 as claimed: wherever the first and only invocation on a Created run may stop,
\* the status is below Committed iff the config was not written, Committed iff it
\* was written and the branch not merged, Merged iff the branch was merged and
\* the deploy not triggered, OK iff the deploy was triggered.
C7_StatusIsExactlyLastEffect ==
    nStarted <= 1 =>
        /\ Rank(prStatus) < 1 <=> ~ConfigWritten
        /\ prStatus = StatusCommitted <=> (ConfigWritten /\ ~BranchMerged)
        /\ prStatus = StatusMerged <=> (BranchMerged /\ ~DeployTriggered)
        /\ prStatus = StatusOK <=> DeployTriggered

\* C7 as amended: wherever the first and only invocation on a Created run may stop,
\* the status is never ahead of the effects and at most one stage behind them.
C7_StatusLagsEffectsByAtMostOneStage ==
    nStarted <= 1 =>
        /\ Rank(prStatus) >= 1 => (ConfigWritten /\ prConfigCommit = gitopsHead)
        /\ Rank(prStatus) >= 2 => BranchMerged
        /\ Rank(prStatus) >= 3 => DeployTriggered
        /\ BranchMerged => Rank(prStatus) >= 1
        /\ DeployTriggered => Rank(prStatus) >= 2
        /\ Rank(prStatus) >= 0

\* The only invocation stopped with the deploy triggered and the status still Merged.
C7_Witness ==
    \E i \in Procs :
        /\ nStarted = 1 /\ Failed(i)
        /\ DeployTriggered /\ prStatus = StatusMerged

\* The call sites every successful run passes, in the order of the code.
Stages ==
    << <<"UpdatePipelineOutput", "">>, <<"UpdateConfigCommitByID", "">>,
       <<"UpdateStatusByID", StatusCommitted>>, <<"MergeBranch", "">>,
       <<"UpdateStatusByID", StatusMerged>>, <<"CreateCluster", "">>,
       <<"DeployCluster", "">>, <<"UpdateStatusByID", StatusOK>> >>

\* Every stage completed, in order, the last call being the write of status OK.
AllStagesDone(i) ==
    /\ Len(log[i]) \in OkAt(i, "UpdateStatusByID", StatusOK)
    /\ \A k \in 1..Len(log[i]) : log[i][k].ok
    /\ \A s \in 1..Len(Stages) : OkAt(i, Stages[s][1], Stages[s][2]) # {}
    /\ \A s \in 1..(Len(Stages) - 1) :
          \A j \in OkAt(i, Stages[s][1], Stages[s][2]) :
             \A k \in OkAt(i, Stages[s + 1][1], Stages[s + 1][2]) : j < k

\* C8: a returned invocation has a response exactly when it has no error, and has
\* a response exactly when every stage completed, the write of status OK last.
C8_NoPartialSuccess ==
    \A i \in Procs : Returned(i) =>
        /\ result[i].resp # <<>> <=> result[i].err = ErrNil
        /\ result[i].resp # <<>> <=> AllStagesDone(i)

\* An invocation returned an error after DeployCluster had succeeded.
C8_Witness ==
    \E i \in Procs : Failed(i) /\ result[i].resp = <<>> /\ OkAt(i, "DeployCluster", "") # {}

\* C9: every call of DeployCluster comes after a successful CreateCluster and a
\* successful write of status Merged of the same invocation, and passes the
\* revision MergeBranch returned in that invocation, which is not the commit
\* UpdatePipelineOutput returned.
C9_DeployMergedRevisionAfterCreate ==
    \A i \in Procs : \A k \in 1..Len(log[i]) : log[i][k].call = "DeployCluster" =>
        /\ \E c \in 1..(k - 1) : log[i][c].call = "CreateCluster" /\ log[i][c].ok
        /\ \E m \in 1..(k - 1) :
              /\ log[i][m].call = "UpdateStatusByID" /\ log[i][m].ok
              /\ log[i][m].state = StatusMerged
        /\ \E m \in 1..(k - 1) :
              /\ log[i][m].call = "MergeBranch" /\ log[i][m].ok
              /\ log[i][k].arg = log[i][m].ret
        /\ \A u \in 1..Len(log[i]) :
              log[i][u].call = "UpdatePipelineOutput" => log[i][k].arg # log[i][u].ret

\* DeployCluster was called by the second invocation with the master revision its
\* merge returned, which is not its config commit.
C9_Witness ==
    \E i \in Procs :
        /\ nStarted = 2 /\ last = i
        /\ OkAt(i, "DeployCluster", "") # {}
        /\ cdRevision = masterRevision[i] /\ cdRevision = masterHead
        /\ commit[i] # 0 /\ commit[i] # masterRevision[i]

\* C10: a successful invocation after whose start no other started finds the
\* persisted status below OK only if invocations overlapped; without overlap
\* (per-cluster mutual exclusion) that state is unreachable.
C10_OKLostOnlyByOverlap ==
    \A i \in Procs :
        (last = i /\ Succeeded(i) /\ prStatus # StatusOK) => overlapped

\* The race: invocation i returned success having persisted OK, and invocation j,
\* which ran beside it, then wrote Committed or Merged and failed.
C10_Witness ==
    \E i, j \in Procs :
        /\ i # j /\ last = i /\ overlapped
        /\ Succeeded(i) /\ OkAt(i, "UpdateStatusByID", StatusOK) # {}
        /\ Failed(j) /\ StatusWrites(j) # {}
        /\ prStatus = LastStage(j)
        /\ prStatus \in {StatusCommitted, StatusMerged}

\* The stage calls of invocation i, in the order it made them.
IsStage(e) ==
    e.call \in {"UpdatePipelineOutput", "UpdateConfigCommitByID", "UpdateStatusByID",
                "MergeBranch", "CreateCluster", "DeployCluster"}
StageCalls(i) == SelectSeq(log[i], IsStage)

\* C11: every invocation, whatever status it loaded, makes the stage calls from the
\* first on, in the order of the code, none skipped; and when a second invocation
\* follows a successful one and succeeds with Git answering its calls as no-ops
\* (the same commit, the same master revision), the status is OK and ConfigCommit,
\* the Cluster status and the deployed revision are what the first run left.
C11_ReinvocationFromStageOne ==
    \A i \in Procs :
        /\ Len(log[i]) >= 5 => log[i][5].call = "UpdatePipelineOutput"
        /\ Len(log[i]) >= 5 =>
              LET sc == StageCalls(i) IN
              /\ Len(sc) <= Len(Stages)
              /\ \A k \in 1..Len(sc) : <<sc[k].call, sc[k].state>> = Stages[k]
        /\ \A j \in Procs \ {i} :
              (/\ Alone(i) /\ Succeeded(i) /\ Succeeded(j)
               /\ commit[i] = commit[j] /\ masterRevision[i] = masterRevision[j])
              => /\ prStatus = StatusOK
                 /\ prConfigCommit = result[j].resp[2]
                 /\ clusterStatus = cluster[j].Status
                 /\ cdRevision = masterRevision[j]

\* A run that was OK, on a cluster the first invocation had reset from Freed, was
\* deployed again to success with Git answering as no-ops.
C11_Witness ==
    \E i \in Procs : \E j \in Procs \ {i} :
        /\ Alone(i) /\ Succeeded(i) /\ Succeeded(j)
        /\ pr[i].Status = StatusOK
        /\ commit[i] = commit[j] /\ masterRevision[i] = masterRevision[j]
        /\ OkAt(j, "clusterMgr.UpdateByID", ClusterStatusEmpty) # {}
        /\ OkAt(i, "clusterMgr.UpdateByID", ClusterStatusEmpty) = {}

\* Invocation i made the call `call` (with status `state`) with success before
\* position k of its history.
OkBefore(i, call, state, k) ==
    \E j \in 1..(k - 1) : log[i][j].call = call /\ log[i][j].state = state /\ log[i][j].ok

\* C31: in every reachable state the persisted status is not ahead of the
\* effects. Status Committed or later: the config was written to Git and
\* ConfigCommit holds a commit; Merged or later: the branch was merged; OK: the
\* cluster was created in the CD backend and deployed. And every invocation that
\* wrote a status had, before the write, the successful calls the status stands
\* for: for Committed, UpdatePipelineOutput and the write of the commit it
\* returned to ConfigCommit; for Merged, MergeBranch; for OK, CreateCluster and
\* DeployCluster.
C31_StatusNeverAheadOfEffects ==
    /\ Rank(prStatus) >= 0
    /\ Rank(prStatus) >= 1 => (ConfigWritten /\ prConfigCommit # 0 /\ prConfigCommit <= gitopsHead)
    /\ Rank(prStatus) >= 2 => BranchMerged
    /\ Rank(prStatus) >= 3 => (cdCreated /\ DeployTriggered)
    /\ \A i \in Procs : \A k \in StatusWrites(i) :
          /\ \E u \in 1..(k - 1) :
                /\ log[i][u].call = "UpdatePipelineOutput" /\ log[i][u].ok
                /\ \E c \in (u + 1)..(k - 1) :
                      /\ log[i][c].call = "UpdateConfigCommitByID" /\ log[i][c].ok
                      /\ log[i][c].arg = log[i][u].ret
          /\ Rank(log[i][k].state) >= 2 => OkBefore(i, "MergeBranch", "", k)
          /\ Rank(log[i][k].state) >= 3 =>
                (OkBefore(i, "CreateCluster", "", k) /\ OkBefore(i, "DeployCluster", "", k))
    /\ \A i \in Procs : (Alone(i) /\ StatusWrites(i) # {}) => prConfigCommit = commit[i]

\* Two invocations overlapped, one of them has persisted OK and returned, and
\* ConfigCommit holds the commit of an older write than the head of the branch.
C31_Witness ==
    \E i \in Procs :
        /\ overlapped /\ Succeeded(i) /\ prStatus = StatusOK
        /\ cdCreated /\ DeployTriggered
        /\ prConfigCommit < gitopsHead

\* Invocation i reset the cluster from Freed to Empty and then failed at
\* DeployCluster or at the write of status OK.
FailedAfterReset(i) ==
    /\ Failed(i)
    /\ OkAt(i, "clusterMgr.UpdateByID", ClusterStatusEmpty) # {}
    /\ ~log[i][Len(log[i])].ok
    /\ \/ log[i][Len(log[i])].call = "DeployCluster"
       \/ (log[i][Len(log[i])].call = "UpdateStatusByID" /\ log[i][Len(log[i])].state = StatusOK)

\* C32: nothing is undone. After an invocation reset the cluster from Freed to
\* Empty and then failed at DeployCluster or at the last status write, the
\* Cluster record is Empty and the Git commit and merge are in place, and, when
\* the invocation ran alone, the branches hold its commit and its merge and the
\* PipelineRun status is Merged. The Cluster record is written only by an
\* invocation that loaded it as Freed: a cluster loaded in another status is
\* never written and, when the invocation ran alone, holds that status still.
C32_NoCompensation ==
    \A i \in Procs :
        /\ FailedAfterReset(i) =>
              /\ clusterStatus = ClusterStatusEmpty
              /\ ConfigWritten /\ BranchMerged /\ cdCreated
              /\ Alone(i) =>
                    /\ prStatus = StatusMerged
                    /\ prConfigCommit = commit[i] /\ gitopsHead = commit[i]
                    /\ masterHead = masterRevision[i] /\ mergedCommit = gitopsHead
        /\ \A k \in 1..Len(log[i]) :
              /\ log[i][k].call = "clusterMgr.UpdateByID" =>
                    /\ OkAt(i, "clusterMgr.GetByID", ClusterStatusFreed) # {}
                    /\ log[i][k].state = ClusterStatusEmpty
              /\ (/\ log[i][k].call = "clusterMgr.GetByID" /\ log[i][k].ok
                  /\ log[i][k].state # ClusterStatusFreed)
                 => /\ \A j \in 1..Len(log[i]) : log[i][j].call # "clusterMgr.UpdateByID"
                    /\ Alone(i) => clusterStatus = log[i][k].state

\* A lone invocation reset the cluster, failed at DeployCluster, and left the
\* cluster Empty and the run Merged.
C32_Witness ==
    \E i \in Procs :
        /\ FailedAfterReset(i) /\ Alone(i)
        /\ log[i][Len(log[i])].call = "DeployCluster"
        /\ clusterStatus = ClusterStatusEmpty /\ prStatus = StatusMerged
        /\ masterHead = masterRevision[i]

\* C33: when every collaborator call returns, each invocation comes to its
\* return, with an error or with the status OK it has persisted, after at most
\* the fifteen collaborator calls of the function: the function has no loop and
\* no wait of its own. Callers start finitely many
\* invocations, so that every invocation returns means: from some point on no
\* invocation is under way.
C33_EveryInvocationReturns ==
    /\ [](\A i \in Procs :
            /\ Len(log[i]) <= 15
            /\ Returned(i) => (result[i].err # ErrNil \/ log[i][Len(log[i])].state = StatusOK))
    /\ <>[](\A i \in Procs : ~Active(i))

\* An invocation has returned success after all fifteen calls, and another has
\* returned an error.
C33_Witness ==
    \E i \in Procs : \E j \in Procs \ {i} :
        /\ Succeeded(i) /\ Len(log[i]) = 15 /\ prStatus = StatusOK
        /\ Failed(j)
\* ======================================================================
\* Part II: the rollout ability
\* ======================================================================

\* ------------------------------------------------------------- bounds
\* Longest canary step list declared.
MaxSteps == 3

\* ------------------------------------------------------- input domains
\* setWeight percentages and setReplica counts a step may carry.
Weights == {25, 28, 50, 100}
ReplicaCounts == {2}
StepKinds == {WeightStep(w) : w \in Weights} \cup {ReplicaStep(n) : n \in ReplicaCounts}
                \cup {PauseStep}
StepLists == UNION {[1..n -> StepKinds] : n \in 0..MaxSteps}
\* Spec.Strategy.Canary
Canaries == {NilCanary} \cup {Canary(steps) : steps \in StepLists}
\* Spec.Replicas
DeclaredReplicas == {NilPtr, Ptr(4), Ptr(25)}
\* Status.CurrentStepIndex: unset, or any index from below 0 to past the last step.
StepIndexes == {NilPtr} \cup {Ptr(n) : n \in -1..(MaxSteps + 1)}
\* status.autoPromote of the unstructured object
AutoPromotes == {"absent", "true", "notbool"}

\* getRolloutByNode without a rollout to return: the Get answered NotFound or
\* failed otherwise (lines 106-113), or the conversion failed (lines 116-119).
FetchFailures == {"notFound", "getFailed", "convertFailed"}

\* ------------------------------------------------- float64 arithmetic
\* A finite non-negative float64 is [m, f]: the bits m of its significand, most
\* significant first (<<>> is zero), and the number f of those bits that stand
\* after the binary point. IEEE 754 binary64 keeps 53 significant bits and rounds
\* to nearest, ties to even.
MantissaBits == 53
\* Bits after the binary point a quotient is developed to before it is rounded.
FractionBits == 60
\* Width of the pieces a significand is multiplied in.
LimbBits == 18

\* The n low bits of x, most significant first.
BitsN(x, n) == [k \in 1..n |-> (x \div 2^(n - k)) % 2]

\* bits without its leading zeros
Strip(bits) ==
    IF \A k \in 1..Len(bits) : bits[k] = 0 THEN <<>>
    ELSE SubSeq(bits, CHOOSE s \in 1..Len(bits) :
                          bits[s] = 1 /\ \A k \in 1..(s - 1) : bits[k] = 0,
                Len(bits))

BitsOf(n) == Strip(BitsN(n, 30))

RECURSIVE ToNat(_)
ToNat(bits) ==
    IF bits = <<>> THEN 0
    ELSE 2 * ToNat(SubSeq(bits, 1, Len(bits) - 1)) + bits[Len(bits)]

\* bits + 1
Inc(bits) ==
    IF \A k \in 1..Len(bits) : bits[k] = 1 THEN <<1>> \o [k \in 1..Len(bits) |-> 0]
    ELSE LET p == CHOOSE p \in 1..Len(bits) :
                      bits[p] = 0 /\ \A q \in (p + 1)..Len(bits) : bits[q] = 1
         IN  [k \in 1..Len(bits) |-> IF k < p THEN bits[k] ELSE IF k = p THEN 1 ELSE 0]

\* The float64 nearest to the exact value whose leading bits are m (f of them
\* after the point); rest says that the exact value has non-zero bits beyond m.
RoundToFloat64(m, f, rest) ==
    IF Len(m) <= MantissaBits THEN [m |-> m, f |-> f]
    ELSE LET kept == SubSeq(m, 1, MantissaBits)
             guard == m[MantissaBits + 1]
             sticky == rest \/ \E k \in (MantissaBits + 2)..Len(m) : m[k] = 1
             up == guard = 1 /\ (sticky \/ kept[MantissaBits] = 1)
         IN  [m |-> IF up THEN Inc(kept) ELSE kept, f |-> f - (Len(m) - MantissaBits)]

\* 2^k modulo d, for k up to FractionBits
Pow2Mod(k, d) == (((2^(k \div 2)) % d) * ((2^(k - k \div 2)) % d)) % d

\* Long division of n by d: the remainder left after k bits of the fraction, and
\* the k-th bit of the fraction.
DivRem(n, d, k) == ((n % d) * Pow2Mod(k, d)) % d
DivBit(n, d, k) == (2 * DivRem(n, d, k - 1)) \div d

\* float64(n) / d, for d below 2^7 (so that FractionBits bits of the fraction hold
\* one bit more than a float64 keeps)
FloatDiv(n, d) ==
    RoundToFloat64(Strip(BitsN(n \div d, 30) \o [k \in 1..FractionBits |-> DivBit(n, d, k)]),
                   FractionBits, DivRem(n, d, FractionBits) # 0)

\* The i-th piece of LimbBits bits of the significand m, counted from the right.
Limb(m, i) ==
    ToNat(SubSeq(m, IF Len(m) - LimbBits * (i + 1) + 1 < 1 THEN 1
                    ELSE Len(m) - LimbBits * (i + 1) + 1,
                 Len(m) - LimbBits * i))

\* The bits of m * t, for a significand m of up to 3 * LimbBits bits and t below 2^7
MulBits(m, t) ==
    LET p0 == Limb(m, 0) * t
        p1 == Limb(m, 1) * t + p0 \div 2^LimbBits
        p2 == Limb(m, 2) * t + p1 \div 2^LimbBits
    IN  Strip(BitsN(p2, 30) \o BitsN(p1 % 2^LimbBits, LimbBits)
                \o BitsN(p0 % 2^LimbBits, LimbBits))

\* x * float64(t)
FloatMul(x, t) ==
    IF t = 0 \/ x.m = <<>> THEN [m |-> <<>>, f |-> 0]
    ELSE RoundToFloat64(MulBits(x.m, t), x.f, FALSE)

\* int(math.Ceil(x))
Ceil(x) ==
    LET n == Len(x.m)
        whole == IF n > x.f THEN SubSeq(x.m, 1, n - x.f) ELSE <<>>
        fraction == \E k \in (Len(whole) + 1)..n : x.m[k] = 1
    IN  ToNat(whole) + (IF fraction THEN 1 ELSE 0)

\* ----------------------------------------------------------- GetSteps
\* Faulty variant of replicasTotal: an unset replica count reads as 0.
replicasTotal_DefaultZero(inst) == IF inst.Spec.Replicas.nil THEN 0 ELSE inst.Spec.Replicas.v

\* Lines 213-216: var replicasTotal = 1; the declared count when there is one.
replicasTotal(inst) == IF inst.Spec.Replicas.nil THEN 1 ELSE inst.Spec.Replicas.v

\* Line 230: int(math.Ceil(float64(*step.SetWeight)/100*float64(replicasTotal))),
\* for the weights and totals of the input domains.
WeightReplicas ==
    [w \in Weights, t \in {replicasTotal(Rollout(r, NilCanary, NoAnnotations, "", <<>>, NilPtr)) :
                             r \in DeclaredReplicas} |->
        Ceil(FloatMul(FloatDiv(w, 100), t))]

\* Lines 229-233 and 252-253: the step sets a weight or a replica count.
HasEffect(step) == ~step.SetWeight.nil \/ ~step.SetReplica.nil

\* Lines 229-233: what a step with an effect appends to replicasList.
StepReplicas(step, total) ==
    IF ~step.SetWeight.nil THEN WeightReplicas[step.SetWeight.v, total]
    ELSE step.SetReplica.v

\* Lines 227-234
replicasList(inst) ==
    LET e == SelectSeq(inst.Spec.Strategy.Canary.Steps, HasEffect)
    IN  [k \in 1..Len(e) |-> StepReplicas(e[k], replicasTotal(inst))]

\* Faulty variant of incrementReplicasList: a negative difference is held at 0.
incrementReplicasList_Clamped(list) ==
    [i \in 1..Len(list) |->
        IF i > 1 THEN (IF list[i] < list[i - 1] THEN 0 ELSE list[i] - list[i - 1]) ELSE list[i]]

\* Faulty variant of incrementReplicasList: every entry is taken from the first.
incrementReplicasList_FromFirst(list) ==
    [i \in 1..Len(list) |-> IF i > 1 THEN list[i] - list[1] ELSE list[i]]

\* Lines 236-243
incrementReplicasList(list) ==
    [i \in 1..Len(list) |-> IF i > 1 THEN list[i] - list[i - 1] ELSE list[i]]

\* The hash of the declared step list. computeStepHash is defined in another file
\* of the package: a hash is held here by the list it hashes, the nil strategy
\* hashing as the empty list.
computeStepHash(inst) == inst.Spec.Strategy.Canary.Steps
\* A stored hash of another step list.
StaleStepHash(canary) == Append(canary.Steps, PauseStep)

\* Line 250: math.Min(index, float64(len(steps)))
Min(a, b) == IF a <= b THEN a ELSE b

\* Faulty variant of HashTrusted: the stored hash is not compared.
HashTrusted_IgnoresHash(inst) == ~inst.Status.CurrentStepIndex.nil

\* Lines 247-248
HashTrusted(inst) ==
    /\ inst.Status.CurrentStepHash = computeStepHash(inst)
    /\ ~inst.Status.CurrentStepIndex.nil

\* Faulty variant of stepIndex: the clamped index is returned as it is.
stepIndex_CountsEveryStep(inst) ==
    IF HashTrusted(inst)
    THEN Min(inst.Status.CurrentStepIndex.v, Len(inst.Spec.Strategy.Canary.Steps))
    ELSE 0

\* Faulty variant of stepIndex: a step that sets a replica count does not count.
stepIndex_CountsWeightsOnly(inst) ==
    IF HashTrusted(inst)
    THEN LET steps == inst.Spec.Strategy.Canary.Steps
             index == Min(inst.Status.CurrentStepIndex.v, Len(steps))
         IN  Cardinality({i \in 1..index : ~steps[i].SetWeight.nil})
    ELSE 0

\* Lines 245-257
stepIndex(inst) ==
    IF HashTrusted(inst)
    THEN LET steps == inst.Spec.Strategy.Canary.Steps
             index == Min(inst.Status.CurrentStepIndex.v, Len(steps))
         IN  Cardinality({i \in 1..index : HasEffect(steps[i])})
    ELSE 0

\* Line 264: json.Marshal(map[string]interface{}{"currentIndex": n}), which does
\* not fail for an int32.
MarshalExtra(n) == [nil |-> FALSE, currentIndex |-> n]

\* Lines 218-225
NoCanarySteps(inst) ==
    inst.Spec.Strategy.Canary.nil \/ Len(inst.Spec.Strategy.Canary.Steps) = 0

\* What GetSteps comes to for the outcome of getRolloutByNode.
GetStepsReturn(fetch, inst, u) ==
    IF fetch \in {"notFound", "getFailed"} THEN StepErr(ErrGetFailed)
    ELSE IF fetch = "convertFailed" THEN StepErr(ErrConvert)
    ELSE IF NoCanarySteps(inst)
         THEN StepRet(Step_(0, 1, <<replicasTotal(inst)>>, FALSE, FALSE, NilExtra))
    ELSE IF u.status.autoPromote = "notbool" THEN StepErr(ErrNestedBool)
    ELSE IF inst.Status.CurrentStepIndex.nil THEN Panic("GetSteps")
    ELSE LET incr == incrementReplicasList(replicasList(inst))
         IN  StepRet(Step_(stepIndex(inst), Len(incr), incr, inst.Spec.Paused,
                           u.status.autoPromote = "true",
                           MarshalExtra(inst.Status.CurrentStepIndex.v)))

\* func (r *rollout) GetSteps(node, client) (*workload.Step, error)
GetSteps ==
    /\ out = NoRet
    /\ out' = GetStepsReturn(fetched, instance, un)
    /\ UNCHANGED <<deployVars, fetched, instance, un, pods, actionVars, name, controlVars>>

\* The objects GetSteps may be given: a failed fetch, or any rollout of the
\* input domains with the stored hash that of its steps or a stale one.
GetStepsInit ==
    /\ DeployIdle /\ clusterStatus = ClusterStatusFreed
    /\ ActionIdle /\ ValidateIdle /\ ControlIdle
    /\ pods = NoPods
    /\ out = NoRet
    /\ \/ /\ fetched \in FetchFailures
          /\ instance = NilInstance
          /\ un = Unstructured("absent")
       \/ /\ fetched = "ok"
          /\ \E r \in DeclaredReplicas, c \in Canaries, x \in StepIndexes, stale \in BOOLEAN :
                instance = Rollout(r, c, NoAnnotations, "",
                                   IF stale THEN StaleStepHash(c) ELSE c.Steps, x)
          /\ \E a \in AutoPromotes : un = Unstructured(a)

GetStepsNext == GetSteps

SpecGetSteps == GetStepsInit /\ [][GetStepsNext]_vars
\* ---------------------------------------------------------- IsHealthy
\* Most pods the list returns.
MaxPods == 2

\* A map[string]string with the one entry k: v, and the lookup m[k] of Go, which
\* gives "" for a key the map does not hold.
Annotation(k, v) == [x \in {k} |-> v]
Lookup(m, k) == IF k \in DOMAIN m THEN m[k] ELSE ""

\* corev1.Pod, by the fields the ability reads.
Pod(phase, podSpec, annotations) ==
    [Status |-> [Phase |-> phase], Spec |-> podSpec, Annotations |-> annotations]

\* The hash of a pod spec. computePodSpecHash is defined in another file of the
\* package: a pod spec is held here by a name and hashes to a value of its own.
computePodSpecHash(podSpec) == <<"hash", podSpec>>

\* Input domains of IsHealthy.
TemplateAnnotations == {NoAnnotations, Annotation("a", "x"), Annotation("a", "")}
PodKinds ==
    {Pod("Running", "v1", a) :
        a \in {NoAnnotations, Annotation("a", "x"), Annotation("a", ""),
               [x \in {"a", "b"} |-> IF x = "a" THEN "x" ELSE "y"]}}
    \cup {Pod("Pending", "v1", Annotation("a", "x")), Pod("Running", "v2", Annotation("a", "x"))}
PodLists == UNION {[1..n -> PodKinds] : n \in 0..MaxPods}
HealthReplicas == {NilPtr, Ptr(0), Ptr(1), Ptr(2)}
HealthCanaries == {NilCanary, Canary(<<>>), Canary(<<PauseStep>>)}
HealthStepIndexes == {NilPtr, Ptr(0), Ptr(1)}

\* Lines 143-146: required := 0; the declared count when there is one.
required(inst) == IF inst.Spec.Replicas.nil THEN 0 ELSE inst.Spec.Replicas.v

\* Lines 161-166: every annotation of the template reads the same on the pod.
AnnotationsMatch(inst, pod) ==
    \A k \in DOMAIN inst.Spec.Template.Annotations :
        Lookup(pod.Annotations, k) = inst.Spec.Template.Annotations[k]

\* Lines 151-168: the pod is counted.
PodMatches(inst, pod) ==
    /\ pod.Status.Phase = "Running"
    /\ computePodSpecHash(inst.Spec.Template.Spec) = computePodSpecHash(pod.Spec)
    /\ AnnotationsMatch(inst, pod)

\* Lines 142-168
count(inst, items) == Cardinality({k \in 1..Len(items) : PodMatches(inst, items[k])})

\* Faulty variant of CountDiffers: more pods than required pass.
CountDiffers_OnlyWhenFewer(c, r) == c < r

\* Line 169: if count != required
CountDiffers(c, r) == c # r

\* What IsHealthy comes to for the outcomes of getRolloutByNode and of the pod list.
\* getRolloutByNode returns a rollout whenever it returns no error, so the branch
\* of line 130 (instance == nil) is never taken.
IsHealthyReturn(fetch, inst, podList) ==
    IF fetch \in {"notFound", "getFailed"} THEN HealthyRet(TRUE, ErrGetFailed)
    ELSE IF fetch = "convertFailed" THEN HealthyRet(TRUE, ErrConvert)
    ELSE IF podList.err THEN HealthyRet(TRUE, ErrListPods)
    ELSE IF CountDiffers(count(inst, podList.Items), required(inst)) THEN HealthyRet(FALSE, ErrNil)
    ELSE IF ~inst.Status.CurrentStepIndex.nil
         THEN IF inst.Spec.Strategy.Canary.nil THEN Panic("IsHealthy")
              ELSE HealthyRet(inst.Status.CurrentStepIndex.v = Len(inst.Spec.Strategy.Canary.Steps),
                              ErrNil)
    ELSE HealthyRet(TRUE, ErrNil)

\* func (r *rollout) IsHealthy(node, client) (bool, error)
IsHealthy ==
    /\ out = NoRet
    /\ out' = IsHealthyReturn(fetched, instance, pods)
    /\ UNCHANGED <<deployVars, fetched, instance, un, pods, actionVars, name, controlVars>>

\* The objects IsHealthy may be given: a failed fetch, a failed pod list, or any
\* rollout and pod list of the input domains.
IsHealthyInit ==
    /\ DeployIdle /\ clusterStatus = ClusterStatusFreed
    /\ ActionIdle /\ ValidateIdle /\ ControlIdle
    /\ un = Unstructured("absent")
    /\ out = NoRet
    /\ \/ /\ fetched \in FetchFailures
          /\ instance = NilInstance
          /\ pods = NoPods
       \/ /\ fetched = "ok"
          /\ \E r \in HealthReplicas, c \in HealthCanaries, a \in TemplateAnnotations,
                x \in HealthStepIndexes :
                instance = Rollout(r, c, a, "v1", c.Steps, x)
          /\ \/ pods = [err |-> TRUE, Items |-> <<>>]
             \/ \E items \in PodLists : pods = [err |-> FALSE, Items |-> items]

IsHealthyNext == IsHealthy

SpecIsHealthy == IsHealthyInit /\ [][IsHealthyNext]_vars

\* ------------------------------------------------------------- Action
\* Most calls of Action on one object.
MaxActions == 2

\* The errors of Action: herrors.ErrParamInvalid (InvalidArgument), each with the
\* message it is wrapped with.
ErrConvertFailed == "ParamInvalid: convert to rollout failed"
ErrSpecNotFound == "ParamInvalid: spec not found"
ErrStatusNotFound == "ParamInvalid: status not found"
ErrUnsupportedAction == "ParamInvalid: unsupported action"
ActionErrors == {ErrConvertFailed, ErrSpecNotFound, ErrStatusNotFound, ErrUnsupportedAction}

ActionRet(e) == [op |-> "Action", kind |-> "return", step |-> NilStep, healthy |-> FALSE, err |-> e]

\* un.Object is a map[string]interface{}, held as a function of its keys. The
\* value under "spec" or "status" is itself such a map (isMap, with entries m)
\* or a value of another type.
EmptyMap == [k \in {} |-> ""]
MapValue(m) == [isMap |-> TRUE, m |-> m]
NotAMap == [isMap |-> FALSE, m |-> EmptyMap]

\* delete(m, k) and m[k] = v
Delete(m, k) == [x \in DOMAIN m \ {k} |-> m[x]]
Put(m, k, v) == [x \in DOMAIN m \cup {k} |-> IF x = k THEN v ELSE m[x]]

\* Input domains of Action. spec holds replicas and, each of them or not, paused
\* and strategy: a strategy without canary, or a canary without the steps key,
\* with an empty list of steps, or with two steps.
PausedKinds == {"absent", "true", "false"}
StrategyKinds == {"absent", "blueGreen", "canaryNoSteps", "canaryEmpty", "canarySteps"}
StrategyValue(kind) ==
    CASE kind = "blueGreen" -> [blueGreen |-> EmptyMap]
      [] kind = "canaryNoSteps" -> [canary |-> EmptyMap]
      [] kind = "canaryEmpty" -> [canary |-> [steps |-> <<>>]]
      [] kind = "canarySteps" -> [canary |-> [steps |-> <<[setWeight |-> 50], [pause |-> EmptyMap]>>]]
SpecMap(p, kind) ==
    LET withPaused == IF p = "absent" THEN [replicas |-> 3]
                      ELSE Put([replicas |-> 3], "paused", p = "true")
    IN  IF kind = "absent" THEN withPaused
        ELSE Put(withPaused, "strategy", StrategyValue(kind))
\* status holds phase and, each of them or not, pauseConditions,
\* currentStepIndex and autoPromote.
AutoPromoteKinds == {"absent", "true", "false"}
StatusMap(conditions, index, auto) ==
    LET a == IF conditions THEN [phase |-> "Paused", pauseConditions |-> <<"CanaryPauseStep">>]
             ELSE [phase |-> "Paused"]
        b == IF index THEN Put(a, "currentStepIndex", 1) ELSE a
    IN  IF auto = "absent" THEN b ELSE Put(b, "autoPromote", auto = "true")
SpecValues == {NotAMap} \cup {MapValue(SpecMap(p, k)) : p \in PausedKinds, k \in StrategyKinds}
StatusValues ==
    {NotAMap} \cup {MapValue(StatusMap(c, i, a)) : c \in BOOLEAN, i \in BOOLEAN, a \in AutoPromoteKinds}
Objects ==
    {[spec |-> sp, status |-> st] : sp \in SpecValues, st \in StatusValues}
    \cup {[spec |-> sp] : sp \in SpecValues}
    \cup {[status |-> st] : st \in StatusValues}
    \cup {EmptyMap}

\* The names the switch has a case for, and the names Action is called with.
Supported_WithRestart ==
    {"resume", "pause", "promote-full", "promote", "auto-promote", "cancel-auto-promote", "restart"}
Supported == {"resume", "pause", "promote-full", "promote", "auto-promote", "cancel-auto-promote"}
ActionNames == Supported \cup {"restart", "Pause"}

\* runtime.DefaultUnstructuredConverter.FromUnstructured (a library function):
\* it fails when the value under a key is not of the type of the field, and a
\* key the object does not hold leaves the zero value in the field: a nil
\* pointer for Canary and for CurrentStepIndex.
Convertible(u) == \A k \in DOMAIN u : u[k].isMap
Has(u, k, f) == k \in DOMAIN u /\ u[k].isMap /\ f \in DOMAIN u[k].m
ToStep(s) ==
    IF "setWeight" \in DOMAIN s THEN WeightStep(s.setWeight)
    ELSE IF "setReplica" \in DOMAIN s THEN ReplicaStep(s.setReplica)
    ELSE PauseStep
ToCanary(u) ==
    IF Has(u, "spec", "strategy") /\ "canary" \in DOMAIN u.spec.m.strategy
    THEN IF "steps" \in DOMAIN u.spec.m.strategy.canary
         THEN Canary([i \in 1..Len(u.spec.m.strategy.canary.steps) |->
                         ToStep(u.spec.m.strategy.canary.steps[i])])
         ELSE Canary(<<>>)
    ELSE NilCanary
FromUnstructured(u) ==
    [Rollout(IF Has(u, "spec", "replicas") THEN Ptr(u.spec.m.replicas) ELSE NilPtr,
             ToCanary(u), NoAnnotations, "", <<>>,
             IF Has(u, "status", "currentStepIndex") THEN Ptr(u.status.m.currentStepIndex)
             ELSE NilPtr)
     EXCEPT !.Spec.Paused = Has(u, "spec", "paused") /\ u.spec.m.paused]

\* Lines 289 and 293: m, ok := un.Object[k].(map[string]interface{}) gives the
\* map under k and true, or the nil map and false.
Found(u, k) == k \in DOMAIN u /\ u[k].isMap
Fields(u, k) == IF Found(u, k) THEN u[k].m ELSE EmptyMap
\* Faulty variant of statusFound: a missing status is not noticed.
statusFound_Always(u) == TRUE
specFound(u) == Found(u, "spec")
statusFound(u) == Found(u, "status")

\* spec[k] = v, status[k] = v and delete(status, k): the maps are those of the
\* object, which is edited in place.
SetSpec(u, k, v) == Put(u, "spec", MapValue(Put(Fields(u, "spec"), k, v)))
SetStatus(u, k, v) == Put(u, "status", MapValue(Put(Fields(u, "status"), k, v)))
DeleteStatus(u, k) == Put(u, "status", MapValue(Delete(Fields(u, "status"), k)))

\* Faulty variants of the cases of the switch.
pause_ClearsPauseConditions(u) == DeleteStatus(SetSpec(u, "paused", TRUE), "pauseConditions")
resume_KeepsPauseConditions(u) == SetSpec(u, "paused", FALSE)
cancelAutoPromote_SetsFalse(u) == SetStatus(u, "autoPromote", FALSE)

\* Lines 298-316, case by case.
resume(u) == SetSpec(DeleteStatus(u, "pauseConditions"), "paused", FALSE)
pause(u) == SetSpec(u, "paused", TRUE)
promoteFull(u, inst) ==
    SetStatus(DeleteStatus(SetSpec(u, "paused", FALSE), "pauseConditions"),
              "currentStepIndex", Len(inst.Spec.Strategy.Canary.Steps))
promote(u) == DeleteStatus(SetSpec(u, "paused", FALSE), "pauseConditions")
autoPromote(u) ==
    SetSpec(DeleteStatus(SetStatus(u, "autoPromote", TRUE), "pauseConditions"), "paused", FALSE)
cancelAutoPromote(u) == DeleteStatus(u, "autoPromote")

\* Lines 297-319: the object after the switch, for a name it has a case for.
Switch(actionName, u, inst) ==
    CASE actionName = "resume" -> resume(u)
      [] actionName = "pause" -> pause(u)
      [] actionName = "promote-full" -> promoteFull(u, inst)
      [] actionName = "promote" -> promote(u)
      [] actionName = "auto-promote" -> autoPromote(u)
      [] actionName = "cancel-auto-promote" -> cancelAutoPromote(u)
      [] OTHER -> u

\* Lines 283-321: the object after the call, the rollout it was converted to, the
\* pointer returned (un itself, or nil) and the error. Line 304 reads the steps
\* of Spec.Strategy.Canary, a pointer it does not test: the call panics when the
\* rollout has no canary strategy.
ActionResult(actionName, u) ==
    LET inst == FromUnstructured(u)
        Result(after, i, ptr, o) == [un |-> after, instance |-> i, returned |-> ptr, out |-> o]
    IN  IF ~Convertible(u) THEN Result(u, NilInstance, "un", ActionRet(ErrConvertFailed))
        ELSE IF ~specFound(u) THEN Result(u, inst, "nil", ActionRet(ErrSpecNotFound))
        ELSE IF ~statusFound(u) THEN Result(u, inst, "nil", ActionRet(ErrStatusNotFound))
        ELSE IF actionName \notin Supported
             THEN Result(u, inst, "nil", ActionRet(ErrUnsupportedAction))
        ELSE IF actionName = "promote-full" /\ inst.Spec.Strategy.Canary.nil
             THEN Result(u, inst, "none", Panic("Action"))
        ELSE Result(Switch(actionName, u, inst), inst, "un", ActionRet(ErrNil))

\* func (r *rollout) Action(actionName string, un *unstructured.Unstructured)
Action(actionName) ==
    /\ Len(actions) < MaxActions
    /\ out.kind # "panic"
    /\ LET r == ActionResult(actionName, un)
       IN  /\ un' = r.un
           /\ instance' = r.instance
           /\ returned' = r.returned
           /\ out' = r.out
    /\ actions' = Append(actions, actionName)
    /\ given' = Append(given, un)
    /\ UNCHANGED <<deployVars, fetched, pods, name, controlVars>>

\* The objects Action may be given.
ActionInit ==
    /\ DeployIdle /\ clusterStatus = ClusterStatusFreed
    /\ ValidateIdle /\ ControlIdle
    /\ fetched = "none" /\ instance = NilInstance /\ pods = NoPods /\ out = NoRet
    /\ actions = <<>> /\ returned = "none"
    /\ un \in Objects
    /\ given = <<>>

ActionNext == \E actionName \in ActionNames : Action(actionName)

SpecAction == ActionInit /\ [][ActionNext]_vars

\* ---------------------------------------------- validateApplicationName
\* Longest name validated.
MaxNameLen == 41

\* Line 719: if len(name) > 40
NameLimit == 40

\* The errors of validateApplicationName: herrors.ErrParamInvalid, each with the
\* message it is wrapped with.
ErrNameEmpty == "ParamInvalid: name cannot be empty"
ErrNameTooLong == "ParamInvalid: name must not exceed 40 characters"
ErrNameStartsWithDigit == "ParamInvalid: name cannot start with a digit"
ErrNamePattern == "ParamInvalid: invalid application name"
NameErrors == {ErrNameEmpty, ErrNameTooLong, ErrNameStartsWithDigit, ErrNamePattern}

ValidateRet(e) ==
    [op |-> "validateApplicationName", kind |-> "return", step |-> NilStep,
     healthy |-> FALSE, err |-> e]

\* A name is the sequence of its characters. The characters validated: lower-case
\* letters, digits, the hyphen, and two characters the pattern has no class for.
Lower == {"a", "z"}
Digit == {"0", "9"}
Alphabet == Lower \cup Digit \cup {"-", "A", "_"}

\* The names validated: the empty name, the names of one character, and the
\* names of every length up to MaxNameLen made of a first character, a last
\* character and one character repeated between them.
Names ==
    {<<>>} \cup {<<c>> : c \in Alphabet}
    \cup {<<f>> \o [i \in 1..n |-> m] \o <<l>> :
            f \in Alphabet, m \in Alphabet, l \in Alphabet, n \in 0..(MaxNameLen - 2)}

\* Lines 728-730: the name matches ^(([a-z][-a-z0-9]*)?[a-z0-9])?$ : it is empty,
\* or it ends with a letter or a digit and, when longer than one character,
\* begins with a letter followed by letters, digits and hyphens.
MatchString(n) ==
    \/ Len(n) = 0
    \/ /\ n[Len(n)] \in Lower \cup Digit
       /\ Len(n) > 1 => /\ n[1] \in Lower
                        /\ \A i \in 2..(Len(n) - 1) : n[i] \in Lower \cup Digit \cup {"-"}

\* func validateApplicationName(name string) error
validateApplicationName(n) ==
    IF Len(n) = 0 THEN ErrNameEmpty
    ELSE IF Len(n) > NameLimit THEN ErrNameTooLong
    ELSE IF n[1] \in Digit THEN ErrNameStartsWithDigit
    ELSE IF ~MatchString(n) THEN ErrNamePattern
    ELSE ErrNil

ValidateApplicationName ==
    /\ out = NoRet
    /\ out' = ValidateRet(validateApplicationName(name))
    /\ UNCHANGED <<deployVars, fetched, instance, un, pods, actionVars, name, controlVars>>

\* The names validateApplicationName may be given.
ValidateInit ==
    /\ DeployIdle /\ clusterStatus = ClusterStatusFreed
    /\ ActionIdle /\ ControlIdle
    /\ fetched = "none" /\ instance = NilInstance /\ un = Unstructured("absent")
    /\ pods = NoPods /\ out = NoRet
    /\ name \in Names

ValidateNext == ValidateApplicationName

SpecValidate == ValidateInit /\ [][ValidateNext]_vars

\* ------------------------------------------------ application controller
\* Part IV: CreateApplication, CreateApplicationV2, UpdateApplication and
\* DeleteApplication (src/core/controller/application/controller.go). A call
\* of the controller is one action: the request and the collaborator call that
\* fails, if any, are its inputs, and the call records the collaborator calls
\* it made, in order, with what each returned.

ErrPriority == "ParamInvalid: invalid priority"
ErrTemplateEmpty == "ParamInvalid: template cannot be empty"
ErrGitURL == "ParamInvalid: invalid git url"
ErrImageURL == "ParamInvalid: invalid image url"
ErrSchema == "ParamInvalid: jsonschema"
ErrNameConflict == "NameConflict"
ErrClustersExist == "ParamInvalid: there are clusters under this application"
ErrInternal == "InternalError"
ValidationErrors ==
    NameErrors \cup {ErrPriority, ErrTemplateEmpty, ErrGitURL, ErrImageURL, ErrSchema}

\* The names of the requests: a free name, the name of a group that exists
\* under the parent group, and a name validateApplicationName rejects.
GroupNames == {<<"a", "z">>}
ApplicationNames == {<<"a">>, <<"a", "z">>, <<"9">>}

\* The priorities of a request: one of models.P0..P3, none, and another string.
Priorities == {"P0", "", "P9"}
\* Base.Git: no Git, an empty URL, a URL CheckGitURL accepts and one it rejects.
GitURLs == {"nil", "", "valid", "invalid"}
\* A URL of a request of version 2: absent, accepted or rejected by its check.
URLs == {"nil", "valid", "invalid"}

\* The Base of a request: a complete one, and the ones that differ from it in
\* one field.
CompleteBase == [priority |-> "P0", template |-> TRUE, git |-> "valid"]
Base ==
    {[CompleteBase EXCEPT !.priority = p] : p \in Priorities}
    \cup {[CompleteBase EXCEPT !.template = t] : t \in BOOLEAN}
    \cup {[CompleteBase EXCEPT !.git = g] : g \in GitURLs}
CreateApplicationRequest == [base : Base, templateInput : BOOLEAN, tags : BOOLEAN]
UpdateApplicationRequest == CreateApplicationRequest

\* The requests of version 2: the ones with no priority, Git or image, and
\* the ones with one of these and nothing else.
BareRequestV2 ==
    [priority |-> "nil", git |-> "nil", image |-> "nil", templateConfig |-> FALSE,
     templateInfo |-> FALSE, buildConfig |-> FALSE, tags |-> FALSE]
CreateOrUpdateApplicationRequestV2 ==
    [priority : {"nil"}, git : {"nil"}, image : {"nil"}, templateConfig : BOOLEAN,
     templateInfo : BOOLEAN, buildConfig : BOOLEAN, tags : BOOLEAN]
    \cup {[BareRequestV2 EXCEPT !.priority = p] : p \in {"P0", "P9"}}
    \cup {[BareRequestV2 EXCEPT !.git = u] : u \in URLs}
    \cup {[BareRequestV2 EXCEPT !.image = u] : u \in URLs}

\* The collaborator calls of each function that can return an error.
TemplateCalls ==
    {"templateReleaseMgr.GetByTemplateNameAndRelease", "templateSchemaGetter.GetTemplateSchema",
     "jsonschema.Validate"}
CreateCalls ==
    TemplateCalls \cup
    {"groupSvc.GetChildByID", "groupMgr.GetByNameOrPathUnderParent", "applicationMgr.GetByName",
     "applicationGitRepo.CreateOrUpdateApplication", "applicationMgr.Create",
     "templateReleaseMgr.ListByTemplateName", "tagMgr.UpsertByResourceTypeID"}
CreateV2Calls ==
    (CreateCalls \ {"templateReleaseMgr.ListByTemplateName"})
    \cup {"jsonschema.Validate(buildSchema)"}
UpdateCalls ==
    TemplateCalls \cup
    {"applicationMgr.GetByID", "applicationGitRepo.CreateOrUpdateApplication",
     "applicationMgr.UpdateByID", "groupSvc.GetChildByID",
     "templateReleaseMgr.ListByTemplateName", "tagMgr.UpsertByResourceTypeID"}
DeleteCalls ==
    {"applicationMgr.GetByID", "clusterMgr.ListByApplicationID",
     "memberManager.HardDeleteMemberByResourceTypeID",
     "applicationRegionMgr.UpsertByApplicationID", "applicationGitRepo.HardDeleteApplication",
     "applicationMgr.DeleteByID"}

\* One collaborator call of the log, with the error it returned and, for
\* ListByApplicationID, the number of clusters it reported.
Did(call) == [call |-> call, err |-> ErrNil, count |-> 0]
Bad(call, e) == [call |-> call, err |-> e, count |-> 0]
Listed(clusters) ==
    [call |-> "clusterMgr.ListByApplicationID", err |-> ErrNil, count |-> clusters]
\* The call fails when it is the one chosen to fail.
Try(call, bad) == IF bad = call THEN Bad(call, ErrInternal) ELSE Did(call)

\* What a call of the controller returned, and the state it left.
Ret(op, n, hard, templateInput, l, resp, e) ==
    [op |-> op, name |-> n, hard |-> hard, templateInput |-> templateInput,
     log |-> l, kind |-> "return", resp |-> resp, err |-> e]
Panicked(op, n, hard, templateInput, l) ==
    [op |-> op, name |-> n, hard |-> hard, templateInput |-> templateInput,
     log |-> l, kind |-> "panic", resp |-> FALSE, err |-> ErrNil]
Outcome(inv, db, members, repo) ==
    [invocation |-> inv, applicationMgr |-> db, memberManager |-> members,
     applicationGitRepo |-> repo]

\* The error of the last call of a log, ErrNil for an empty log.
LastErr(l) == IF l = <<>> THEN ErrNil ELSE l[Len(l)].err

\* Lines 702-709: func validatePriority(priority string) error
validatePriority(priority) == IF priority \in {"P0"} THEN ErrNil ELSE ErrPriority

\* validate.CheckGitURL and validate.CheckImageURL, on a URL that is present.
CheckGitURL(url) == IF url = "valid" THEN ErrNil ELSE ErrGitURL
CheckImageURL(url) == IF url = "valid" THEN ErrNil ELSE ErrImageURL

\* Lines 668-673: func validateGit(b Base) error
validateGit(b) == IF b.git # "nil" /\ b.git # "" THEN CheckGitURL(b.git) ELSE ErrNil

\* Lines 649-657: func (c *controller) validateCreate(b Base) error
validateCreate(b) ==
    IF validatePriority(b.priority) # ErrNil THEN validatePriority(b.priority)
    ELSE IF ~b.template THEN ErrTemplateEmpty
    ELSE validateGit(b)

\* Lines 659-666: func (c *controller) validateUpdate(b Base) error
validateUpdate(b) ==
    IF b.priority # "" /\ validatePriority(b.priority) # ErrNil THEN validatePriority(b.priority)
    ELSE validateGit(b)

\* Lines 676-699: validateTemplateInput: the calls it makes, the last of which
\* may have failed.
validateTemplateInput(bad) ==
    LET l1 == <<Try("templateReleaseMgr.GetByTemplateNameAndRelease", bad)>>
        l2 == l1 \o <<Try("templateSchemaGetter.GetTemplateSchema", bad)>>
        l3 == l2 \o <<IF bad = "jsonschema.Validate"
                      THEN Bad("jsonschema.Validate", ErrSchema)
                      ELSE Did("jsonschema.Validate")>>
    IN  IF LastErr(l1) # ErrNil THEN l1
        ELSE IF LastErr(l2) # ErrNil THEN l2
        ELSE l3

\* Lines 323-341: validateBuildAndTemplateConfigV2
validateBuildAndTemplateConfigV2(request, bad) ==
    LET l1 == IF request.templateConfig /\ request.templateInfo
              THEN validateTemplateInput(bad) ELSE <<>>
        l2 == l1 \o <<IF bad = "jsonschema.Validate(buildSchema)"
                      THEN Bad("jsonschema.Validate(buildSchema)", ErrSchema)
                      ELSE Did("jsonschema.Validate(buildSchema)")>>
    IN  IF LastErr(l1) # ErrNil THEN l1
        ELSE IF request.buildConfig THEN l2
        ELSE l1

\* A faulty variant: an application of the same name is not looked up.
checkNameConflict_GroupsOnly(n, l, bad) ==
    LET l1 == l \o <<Try("groupMgr.GetByNameOrPathUnderParent", bad)>>
    IN  IF LastErr(l1) # ErrNil THEN [log |-> l1, err |-> ErrInternal]
        ELSE IF n \in GroupNames THEN [log |-> l1, err |-> ErrNameConflict]
        ELSE [log |-> l1, err |-> ErrNil]

\* Lines 258-277 and 370-389: the group and the application of the same name
\* are looked up; GetByName reports an application that is absent by NotFound.
\* The calls made after the log l, and the error to return, ErrNil for none.
checkNameConflict(n, l, bad) ==
    LET l1 == l \o <<Try("groupMgr.GetByNameOrPathUnderParent", bad)>>
        l2 == l1 \o <<IF bad = "applicationMgr.GetByName"
                      THEN Bad("applicationMgr.GetByName", ErrInternal)
                      ELSE IF n \in applicationMgr THEN Did("applicationMgr.GetByName")
                      ELSE Bad("applicationMgr.GetByName", ErrNotFound)>>
    IN  IF LastErr(l1) # ErrNil THEN [log |-> l1, err |-> ErrInternal]
        ELSE IF n \in GroupNames THEN [log |-> l1, err |-> ErrNameConflict]
        ELSE IF LastErr(l2) = ErrInternal THEN [log |-> l2, err |-> ErrInternal]
        ELSE IF n \in applicationMgr THEN [log |-> l2, err |-> ErrNameConflict]
        ELSE [log |-> l2, err |-> ErrNil]

\* The events recorded at the end of a creation: their errors are ignored.
CreatedEvents ==
    <<Did("eventSvc.CreateEventIgnoreError"), Did("eventSvc.RecordMemberCreatedEvent")>>

\* Lines 234-321: func (c *controller) CreateApplication(ctx, groupID, request)
createApplication(n, request, bad) ==
    LET op == "CreateApplication"
        Return(l, resp, e, db, members, repo) ==
            Outcome(Ret(op, n, FALSE, request.templateInput, l, resp, e), db, members, repo)
        Fail(l, e) == Return(l, FALSE, e, applicationMgr, memberManager, applicationGitRepo)
        l1 == validateTemplateInput(bad)
        l2 == l1 \o <<Try("groupSvc.GetChildByID", bad)>>
        c == checkNameConflict(n, l2, bad)
        l3 == c.log \o <<Try("applicationGitRepo.CreateOrUpdateApplication", bad)>>
        repo == applicationGitRepo \cup {n}
        l4 == l3 \o <<Try("applicationMgr.Create", bad)>>
        db == applicationMgr \cup {n}
        members == memberManager \cup {n}
        l5 == l4 \o <<Try("templateReleaseMgr.ListByTemplateName", bad)>>
        l6 == IF request.tags THEN l5 \o <<Try("tagMgr.UpsertByResourceTypeID", bad)>> ELSE l5
    IN  IF validateApplicationName(n) # ErrNil THEN Fail(<<>>, validateApplicationName(n))
        ELSE IF validateCreate(request.base) # ErrNil THEN Fail(<<>>, validateCreate(request.base))
        \* line 246 returns the named result err, which no statement has set
        ELSE IF ~request.templateInput THEN Fail(<<>>, ErrNil)
        ELSE IF LastErr(l1) # ErrNil THEN Fail(l1, LastErr(l1))
        ELSE IF LastErr(l2) # ErrNil THEN Fail(l2, LastErr(l2))
        ELSE IF c.err # ErrNil THEN Fail(c.log, c.err)
        ELSE IF LastErr(l3) # ErrNil THEN Fail(l3, LastErr(l3))
        ELSE IF LastErr(l4) # ErrNil
             THEN Return(l4, FALSE, LastErr(l4), applicationMgr, memberManager, repo)
        ELSE IF LastErr(l6) # ErrNil THEN Return(l6, FALSE, LastErr(l6), db, members, repo)
        ELSE Return(l6 \o CreatedEvents, TRUE, ErrNil, db, members, repo)

\* Lines 343-441: func (c *controller) CreateApplicationV2(ctx, groupID, request)
createApplicationV2(n, request, bad) ==
    LET op == "CreateApplicationV2"
        Return(l, resp, e, db, members, repo) ==
            Outcome(Ret(op, n, FALSE, FALSE, l, resp, e), db, members, repo)
        Fail(l, e) == Return(l, FALSE, e, applicationMgr, memberManager, applicationGitRepo)
        l1 == validateBuildAndTemplateConfigV2(request, bad)
        c == checkNameConflict(n, l1, bad)
        l3 == c.log \o <<Try("applicationGitRepo.CreateOrUpdateApplication", bad)>>
        repo == applicationGitRepo \cup {n}
        l4 == l3 \o <<Try("applicationMgr.Create", bad)>>
        db == applicationMgr \cup {n}
        members == memberManager \cup {n}
        l5 == l4 \o <<Try("groupSvc.GetChildByID", bad)>>
        l6 == IF request.tags THEN l5 \o <<Try("tagMgr.UpsertByResourceTypeID", bad)>> ELSE l5
    IN  IF validateApplicationName(n) # ErrNil THEN Fail(<<>>, validateApplicationName(n))
        ELSE IF request.priority # "nil" /\ validatePriority(request.priority) # ErrNil
             THEN Fail(<<>>, ErrPriority)
        ELSE IF request.git # "nil" /\ CheckGitURL(request.git) # ErrNil THEN Fail(<<>>, ErrGitURL)
        ELSE IF request.image # "nil" /\ CheckImageURL(request.image) # ErrNil
             THEN Fail(<<>>, ErrImageURL)
        ELSE IF LastErr(l1) # ErrNil THEN Fail(l1, LastErr(l1))
        ELSE IF c.err # ErrNil THEN Fail(c.log, c.err)
        ELSE IF LastErr(l3) # ErrNil THEN Fail(l3, LastErr(l3))
        ELSE IF LastErr(l4) # ErrNil
             THEN Return(l4, FALSE, LastErr(l4), applicationMgr, memberManager, repo)
        ELSE IF LastErr(l5) # ErrNil THEN Return(l5, FALSE, LastErr(l5), db, members, repo)
        ELSE IF LastErr(l6) # ErrNil THEN Return(l6, FALSE, LastErr(l6), db, members, repo)
        ELSE Return(l6 \o CreatedEvents, TRUE, ErrNil, db, members, repo)

\* Lines 443-518: func (c *controller) UpdateApplication(ctx, id, request)
\* The application is known by its name.
updateApplication(id, request, bad) ==
    LET op == "UpdateApplication"
        Return(l, resp, e, repo) ==
            Outcome(Ret(op, id, FALSE, request.templateInput, l, resp, e),
                    applicationMgr, memberManager, repo)
        Fail(l, e) == Return(l, FALSE, e, applicationGitRepo)
        l1 == <<IF bad = "applicationMgr.GetByID"
                THEN Bad("applicationMgr.GetByID", ErrInternal)
                ELSE IF id \in applicationMgr THEN Did("applicationMgr.GetByID")
                ELSE Bad("applicationMgr.GetByID", ErrNotFound)>>
        l2 == IF request.templateInput THEN l1 \o validateTemplateInput(bad) ELSE l1
        l3 == IF request.templateInput
              THEN l2 \o <<Try("applicationGitRepo.CreateOrUpdateApplication", bad)>>
              ELSE l2
        repo == IF request.templateInput THEN applicationGitRepo \cup {id}
                ELSE applicationGitRepo
        l4 == l3 \o <<Try("applicationMgr.UpdateByID", bad)>>
        l5 == l4 \o <<Did("eventSvc.CreateEventIgnoreError")>>
        l6 == l5 \o <<Try("groupSvc.GetChildByID", bad)>>
        l7 == l6 \o <<Try("templateReleaseMgr.ListByTemplateName", bad)>>
        l8 == IF request.tags THEN l7 \o <<Try("tagMgr.UpsertByResourceTypeID", bad)>> ELSE l7
    IN  IF LastErr(l1) # ErrNil THEN Fail(l1, LastErr(l1))
        ELSE IF validateUpdate(request.base) # ErrNil THEN Fail(l1, validateUpdate(request.base))
        ELSE IF LastErr(l2) # ErrNil THEN Fail(l2, LastErr(l2))
        ELSE IF LastErr(l3) # ErrNil THEN Fail(l3, LastErr(l3))
        ELSE IF LastErr(l4) # ErrNil THEN Return(l4, FALSE, LastErr(l4), repo)
        ELSE IF LastErr(l6) # ErrNil THEN Return(l6, FALSE, LastErr(l6), repo)
        ELSE IF LastErr(l7) # ErrNil THEN Return(l7, FALSE, LastErr(l7), repo)
        ELSE IF LastErr(l8) # ErrNil THEN Return(l8, FALSE, LastErr(l8), repo)
        \* lines 516-517 read request.TemplateInput.Pipeline: a nil pointer
        \* dereference when the request carries no TemplateInput
        ELSE IF ~request.templateInput
             THEN Outcome(Panicked(op, id, FALSE, FALSE, l8), applicationMgr, memberManager, repo)
        ELSE Return(l8, TRUE, ErrNil, repo)

\* Lines 583-635: func (c *controller) DeleteApplication(ctx, id, hard)
\* clusters is the number of clusters ListByApplicationID reports. The Git
\* repository reports an application it does not hold by NotFound.
HardDeleteApplication(id, bad) ==
    IF bad = "applicationGitRepo.HardDeleteApplication"
    THEN Bad("applicationGitRepo.HardDeleteApplication", ErrInternal)
    ELSE IF id \in applicationGitRepo THEN Did("applicationGitRepo.HardDeleteApplication")
    ELSE Bad("applicationGitRepo.HardDeleteApplication", ErrNotFound)

\* A faulty variant: NotFound from the Git repository is tolerated in either mode.
deleteApplication_ToleratesNotFound(id, hard, clusters, bad) ==
    LET op == "DeleteApplication"
        Return(l, e, db, members, repo) ==
            Outcome(Ret(op, id, hard, FALSE, l, FALSE, e), db, members, repo)
        Fail(l, e) == Return(l, e, applicationMgr, memberManager, applicationGitRepo)
        l1 == <<IF bad = "applicationMgr.GetByID"
                THEN Bad("applicationMgr.GetByID", ErrInternal)
                ELSE IF id \in applicationMgr THEN Did("applicationMgr.GetByID")
                ELSE Bad("applicationMgr.GetByID", ErrNotFound)>>
        l2 == l1 \o <<IF bad = "clusterMgr.ListByApplicationID"
                      THEN Bad("clusterMgr.ListByApplicationID", ErrInternal)
                      ELSE Listed(clusters)>>
        l3 == IF hard THEN l2 \o <<Try("memberManager.HardDeleteMemberByResourceTypeID", bad)>>
              ELSE l2
        members == IF hard THEN memberManager \ {id} ELSE memberManager
        l4 == IF hard THEN l3 \o <<Try("applicationRegionMgr.UpsertByApplicationID", bad)>>
              ELSE l3
        l5 == l4 \o <<HardDeleteApplication(id, bad)>>
        repo == applicationGitRepo \ {id}
        l6 == l5 \o <<Try("applicationMgr.DeleteByID", bad)>>
        db == applicationMgr \ {id}
    IN  IF LastErr(l1) # ErrNil THEN Fail(l1, LastErr(l1))
        ELSE IF LastErr(l2) # ErrNil THEN Fail(l2, LastErr(l2))
        ELSE IF clusters > 0 THEN Fail(l2, ErrClustersExist)
        ELSE IF hard /\ LastErr(l3) # ErrNil THEN Fail(l3, LastErr(l3))
        ELSE IF hard /\ LastErr(l4) # ErrNil
             THEN Return(l4, LastErr(l4), applicationMgr, members, applicationGitRepo)
        ELSE IF LastErr(l5) # ErrNil /\ LastErr(l5) # ErrNotFound
             THEN Return(l5, LastErr(l5), applicationMgr, members, applicationGitRepo)
        ELSE IF LastErr(l6) # ErrNil THEN Return(l6, LastErr(l6), applicationMgr, members, repo)
        ELSE Return(l6 \o <<Did("eventSvc.CreateEventIgnoreError")>>, ErrNil, db, members, repo)

deleteApplication(id, hard, clusters, bad) ==
    LET op == "DeleteApplication"
        Return(l, e, db, members, repo) ==
            Outcome(Ret(op, id, hard, FALSE, l, FALSE, e), db, members, repo)
        Fail(l, e) == Return(l, e, applicationMgr, memberManager, applicationGitRepo)
        l1 == <<IF bad = "applicationMgr.GetByID"
                THEN Bad("applicationMgr.GetByID", ErrInternal)
                ELSE IF id \in applicationMgr THEN Did("applicationMgr.GetByID")
                ELSE Bad("applicationMgr.GetByID", ErrNotFound)>>
        l2 == l1 \o <<IF bad = "clusterMgr.ListByApplicationID"
                      THEN Bad("clusterMgr.ListByApplicationID", ErrInternal)
                      ELSE Listed(clusters)>>
        l3 == IF hard THEN l2 \o <<Try("memberManager.HardDeleteMemberByResourceTypeID", bad)>>
              ELSE l2
        members == IF hard THEN memberManager \ {id} ELSE memberManager
        l4 == IF hard THEN l3 \o <<Try("applicationRegionMgr.UpsertByApplicationID", bad)>>
              ELSE l3
        l5 == l4 \o <<HardDeleteApplication(id, bad)>>
        repo == applicationGitRepo \ {id}
        l6 == l5 \o <<Try("applicationMgr.DeleteByID", bad)>>
        db == applicationMgr \ {id}
    IN  IF LastErr(l1) # ErrNil THEN Fail(l1, LastErr(l1))
        ELSE IF LastErr(l2) # ErrNil THEN Fail(l2, LastErr(l2))
        ELSE IF clusters > 0 THEN Fail(l2, ErrClustersExist)
        ELSE IF hard /\ LastErr(l3) # ErrNil THEN Fail(l3, LastErr(l3))
        ELSE IF hard /\ LastErr(l4) # ErrNil
             THEN Return(l4, LastErr(l4), applicationMgr, members, applicationGitRepo)
        ELSE IF LastErr(l5) # ErrNil /\ ~(hard /\ LastErr(l5) = ErrNotFound)
             THEN Return(l5, LastErr(l5), applicationMgr, members, applicationGitRepo)
        ELSE IF LastErr(l6) # ErrNil THEN Return(l6, LastErr(l6), applicationMgr, members, repo)
        ELSE Return(l6 \o <<Did("eventSvc.CreateEventIgnoreError")>>, ErrNil, db, members, repo)

\* The number of clusters ListByApplicationID may report.
MaxClusters == 1

\* The inputs of a call: the name or the id, the request, and the collaborator
\* call that fails, which is one the request can reach.
CreateApplicationInputs ==
    {in \in [name : ApplicationNames, request : CreateApplicationRequest,
             bad : CreateCalls \cup {"none"}] :
        in.bad # "none" => /\ validateApplicationName(in.name) = ErrNil
                           /\ validateCreate(in.request.base) = ErrNil
                           /\ in.request.templateInput}
CreateApplicationV2Inputs ==
    {in \in [name : ApplicationNames, request : CreateOrUpdateApplicationRequestV2,
             bad : CreateV2Calls \cup {"none"}] :
        in.bad # "none" => /\ validateApplicationName(in.name) = ErrNil
                           /\ in.request.priority \in {"nil", "P0"}
                           /\ in.request.git \in {"nil", "valid"}
                           /\ in.request.image \in {"nil", "valid"}}
UpdateApplicationInputs ==
    {in \in [id : ApplicationNames, request : UpdateApplicationRequest,
             bad : UpdateCalls \cup {"none"}] :
        in.bad \notin {"none", "applicationMgr.GetByID"} =>
            /\ in.id \notin GroupNames
            /\ validateApplicationName(in.id) = ErrNil
            /\ validateUpdate(in.request.base) = ErrNil}

CreateApplication ==
    \E in \in CreateApplicationInputs :
        LET r == createApplication(in.name, in.request, in.bad)
        IN  /\ invocation' = r.invocation
            /\ applicationMgr' = r.applicationMgr
            /\ memberManager' = r.memberManager
            /\ applicationGitRepo' = r.applicationGitRepo
            /\ UNCHANGED <<deployVars, fetched, instance, un, pods, out, actionVars,
                           name, handled>>

CreateApplicationV2 ==
    \E in \in CreateApplicationV2Inputs :
        LET r == createApplicationV2(in.name, in.request, in.bad)
        IN  /\ invocation' = r.invocation
            /\ applicationMgr' = r.applicationMgr
            /\ memberManager' = r.memberManager
            /\ applicationGitRepo' = r.applicationGitRepo
            /\ UNCHANGED <<deployVars, fetched, instance, un, pods, out, actionVars,
                           name, handled>>

UpdateApplication ==
    \E in \in UpdateApplicationInputs :
        LET r == updateApplication(in.id, in.request, in.bad)
        IN  /\ invocation' = r.invocation
            /\ applicationMgr' = r.applicationMgr
            /\ memberManager' = r.memberManager
            /\ applicationGitRepo' = r.applicationGitRepo
            /\ UNCHANGED <<deployVars, fetched, instance, un, pods, out, actionVars,
                           name, handled>>

DeleteApplication ==
    \E id \in ApplicationNames, hard \in BOOLEAN, clusters \in 0..MaxClusters,
       bad \in DeleteCalls \cup {"none"} :
        LET r == deleteApplication(id, hard, clusters, bad)
        IN  /\ invocation' = r.invocation
            /\ applicationMgr' = r.applicationMgr
            /\ memberManager' = r.memberManager
            /\ applicationGitRepo' = r.applicationGitRepo
            /\ UNCHANGED <<deployVars, fetched, instance, un, pods, out, actionVars,
                           name, handled>>

ApplicationInit ==
    /\ DeployIdle /\ clusterStatus = ClusterStatusFreed
    /\ AbilityIdle

ApplicationNext ==
    \/ CreateApplication
    \/ CreateApplicationV2
    \/ UpdateApplication
    \/ DeleteApplication

SpecApplication == ApplicationInit /\ [][ApplicationNext]_vars

\* ------------------------------------------------------- auth middleware
\* Part V: the handler function of the auth middleware (src/unnamed/part_001,
\* lines 16-47), applied to a request: whether the context holds an auth
\* record, and what the authorizer returns for it. middleware.New, which
\* applies the skip matchers before the handler function, is outside the
\* sources; the requests are the ones it hands to the function.

\* Requests handled in one behaviour.
MaxRequests == 2

ErrParamInvalid == "ParamInvalid"
\* The decisions of the authorizer, and the errors it returns by their cause:
\* a HorizonErrNotFound, ErrParamInvalid, or another error.
Decisions == {"Allow", "Deny", "NoOpinion"}
AuthorizeErrors == {ErrNil, ErrNotFound, ErrParamInvalid, ErrInternal}

\* What became of a request: the record found, whether Authorize was called
\* and what it returned, whether the request was aborted, the error written to
\* the response, and whether c.Next() ran.
Handled(record, authorized, decision, e, aborted, status, next) ==
    [record |-> record, authorized |-> authorized, decision |-> decision, err |-> e,
     aborted |-> aborted, status |-> status, next |-> next]

\* A faulty variant: a request without auth record is passed on.
Middleware_NextWithoutRecord(record, decision, e) ==
    IF ~record THEN Handled(FALSE, FALSE, "none", ErrNil, FALSE, "none", TRUE)
    ELSE IF e # ErrNil
         THEN Handled(TRUE, TRUE, decision, e, TRUE,
                      IF e = ErrNotFound THEN "NotFoundError"
                      ELSE IF e = ErrParamInvalid THEN "ParamError" ELSE "InternalError",
                      FALSE)
    ELSE IF decision = "Deny" THEN Handled(TRUE, TRUE, decision, e, TRUE, "Forbidden", FALSE)
    ELSE Handled(TRUE, TRUE, decision, e, FALSE, "none", TRUE)

\* Lines 17-46: the function Middleware hands to middleware.New
Middleware(record, decision, e) ==
    \* lines 18-22: c.Abort() without a response
    IF ~record THEN Handled(FALSE, FALSE, "none", ErrNil, TRUE, "none", FALSE)
    \* lines 25-37
    ELSE IF e # ErrNil
         THEN Handled(TRUE, TRUE, decision, e, TRUE,
                      IF e = ErrNotFound THEN "NotFoundError"
                      ELSE IF e = ErrParamInvalid THEN "ParamError" ELSE "InternalError",
                      FALSE)
    \* lines 39-43
    ELSE IF decision = "Deny" THEN Handled(TRUE, TRUE, decision, e, TRUE, "Forbidden", FALSE)
    \* lines 44-45
    ELSE Handled(TRUE, TRUE, decision, e, FALSE, "none", TRUE)

\* A request arrives: without auth record, or with one, for which the
\* authorizer returns a decision or an error.
HandleRequest ==
    /\ Len(handled) < MaxRequests
    /\ \E record \in BOOLEAN, decision \in Decisions, e \in AuthorizeErrors :
        /\ ~record => (decision = "Allow" /\ e = ErrNil)
        /\ handled' = Append(handled, Middleware(record, decision, e))
    /\ UNCHANGED <<deployVars, fetched, instance, un, pods, out, actionVars, name,
                   applicationMgr, memberManager, applicationGitRepo, invocation>>

AuthInit ==
    /\ DeployIdle /\ clusterStatus = ClusterStatusFreed
    /\ AbilityIdle

AuthNext == HandleRequest

SpecAuth == AuthInit /\ [][AuthNext]_vars

\* ------------------------------------------------------ claims: GetSteps
\* GetSteps returned a Step.
GotStep == out.op = "GetSteps" /\ out.kind = "return" /\ out.err = ErrNil
DeclaredSteps == instance.Spec.Strategy.Canary.Steps

RECURSIVE Sum(_)
Sum(seq) == IF seq = <<>> THEN 0 ELSE Sum(SubSeq(seq, 1, Len(seq) - 1)) + seq[Len(seq)]

\* ceil(weight/100 * total) in exact arithmetic
ExactCeil(weight, total) == (weight * total + 99) \div 100

\* The cumulative target the claim gives a step.
ClaimedTarget(step) ==
    IF ~step.SetWeight.nil THEN ExactCeil(step.SetWeight.v, replicasTotal(instance))
    ELSE step.SetReplica.v

\* C12: when every declared step carries a weight or a replica count, Replicas holds
\* one entry per declared step: the first cumulative target, then the successive
\* differences of the targets, a target being ceil(weight/100 * replicasTotal) or
\* the literal replica count.
C12_ReplicasAreDifferencesOfTargets ==
    (GotStep /\ ~NoCanarySteps(instance) /\ \A k \in 1..Len(DeclaredSteps) : HasEffect(DeclaredSteps[k]))
    => /\ Len(out.step.Replicas) = Len(DeclaredSteps)
       /\ \A k \in 1..Len(out.step.Replicas) :
             out.step.Replicas[k] =
                 ClaimedTarget(DeclaredSteps[k])
                 - (IF k > 1 THEN ClaimedTarget(DeclaredSteps[k - 1]) ELSE 0)

\* C13: the Step returned has as many Replicas as its Total says, and they add up
\* to the last cumulative target (to nothing when no step has a target, to
\* replicasTotal for the step returned without canary steps).
C13_ReplicasSumToLastTarget ==
    GotStep =>
        /\ Len(out.step.Replicas) = out.step.Total
        /\ IF NoCanarySteps(instance) THEN Sum(out.step.Replicas) = replicasTotal(instance)
           ELSE LET targets == replicasList(instance) IN
                IF targets = <<>> THEN out.step.Replicas = <<>>
                ELSE Sum(out.step.Replicas) = targets[Len(targets)]

\* A Step for a list that mixes a weight, a replica count and a pause, with a
\* target below the one before it.
C13_Witness ==
    /\ GotStep /\ ~NoCanarySteps(instance)
    /\ \E a, b, c \in 1..Len(DeclaredSteps) :
          /\ ~DeclaredSteps[a].SetWeight.nil
          /\ ~DeclaredSteps[b].SetReplica.nil
          /\ ~HasEffect(DeclaredSteps[c])
    /\ \E k \in 1..Len(out.step.Replicas) : out.step.Replicas[k] < 0

\* C14: when the hash stored in the status is not the hash of the declared steps,
\* the Step returned has Index 0, whatever index the status reports.
C14_StaleHashGivesIndexZero ==
    (GotStep /\ ~NoCanarySteps(instance)
     /\ instance.Status.CurrentStepHash # computeStepHash(instance))
    => out.step.Index = 0

\* A Step returned under a stale hash for a status reporting index 2 past two
\* steps that set a weight.
C14_Witness ==
    /\ GotStep /\ Len(DeclaredSteps) >= 2
    /\ instance.Status.CurrentStepHash # computeStepHash(instance)
    /\ instance.Status.CurrentStepIndex.v = 2
    /\ HasEffect(DeclaredSteps[1]) /\ HasEffect(DeclaredSteps[2])

\* C15: every Step returned has 0 <= Index <= Total.
C15_IndexWithinTotal ==
    GotStep => (0 <= out.step.Index /\ out.step.Index <= out.step.Total)

\* A Step returned, under a trusted hash, for a reported index past the last
\* declared step of a list holding a pause; and Index reaches Total.
C15_Witness ==
    /\ GotStep /\ HashTrusted(instance)
    /\ instance.Status.CurrentStepIndex.v > Len(DeclaredSteps)
    /\ \E k \in 1..Len(DeclaredSteps) : ~HasEffect(DeclaredSteps[k])
    /\ out.step.Index = out.step.Total /\ out.step.Total >= 1

\* The reported index clamped to [0, number of declared steps].
ClampedIndex ==
    LET x == instance.Status.CurrentStepIndex.v
    IN  IF x < 0 THEN 0 ELSE IF x > Len(DeclaredSteps) THEN Len(DeclaredSteps) ELSE x

\* C16: under a trusted hash, Index is the number of steps before the clamped
\* reported index that carry a weight or a replica count.
C16_IndexCountsEffectiveSteps ==
    (GotStep /\ ~NoCanarySteps(instance) /\ HashTrusted(instance))
    => out.step.Index =
          Cardinality({k \in 1..ClampedIndex :
                          ~DeclaredSteps[k].SetWeight.nil \/ ~DeclaredSteps[k].SetReplica.nil})

\* Under a trusted hash the reported index 3 stands past a weight, a pause and a
\* replica count, and Index is 2.
C16_Witness ==
    /\ GotStep /\ HashTrusted(instance)
    /\ Len(DeclaredSteps) = 3 /\ instance.Status.CurrentStepIndex.v = 3
    /\ ~DeclaredSteps[1].SetWeight.nil
    /\ ~HasEffect(DeclaredSteps[2])
    /\ ~DeclaredSteps[3].SetReplica.nil
    /\ out.step.Index = 2

\* C17: for a fetched rollout without canary strategy or with an empty step list
\* GetSteps returns the Step {Index: 0, Total: 1, Replicas: [replicasTotal]} and
\* nothing else in it, replicasTotal being the declared count, or 1 when unset.
C17_SyntheticStepWithoutCanary ==
    (out.op = "GetSteps" /\ fetched = "ok" /\ NoCanarySteps(instance))
    => /\ out.kind = "return" /\ out.err = ErrNil
       /\ out.step = [Index |-> 0, Total |-> 1,
                      Replicas |-> <<IF instance.Spec.Replicas.nil THEN 1
                                     ELSE instance.Spec.Replicas.v>>,
                      ManualPaused |-> FALSE, AutoPromote |-> FALSE, Extra |-> NilExtra]

\* GetSteps was applied to a rollout with no canary strategy, no replica count and
\* no current step index.
C17_Witness ==
    /\ out.op = "GetSteps" /\ fetched = "ok"
    /\ instance.Spec.Strategy.Canary.nil
    /\ instance.Spec.Replicas.nil
    /\ instance.Status.CurrentStepIndex.nil
    /\ out.step.Replicas = <<1>>

\* C18: for every fetched rollout with declared canary steps whose status.autoPromote
\* reads as a bool or is absent, GetSteps returns a Step: building Extra makes it
\* neither fail nor crash, also when the status reports no current step index.
C18_ExtraNeverFailsTheCall ==
    (out.op = "GetSteps" /\ fetched = "ok" /\ ~NoCanarySteps(instance)
     /\ un.status.autoPromote # "notbool")
    => GotStep
\* C34 as claimed: every entry of the Replicas of a Step returned is >= 0, for
\* every declared step list, lists whose targets decrease included, and every
\* replica count.
C34_ReplicasNeverNegative ==
    GotStep => \A k \in 1..Len(out.step.Replicas) : out.step.Replicas[k] >= 0

\* C34 as amended: the first entry of Replicas is >= 0, and a later entry is >= 0
\* exactly when the cumulative target of its step is not below the target of the
\* step before it: every entry is >= 0 for the lists whose targets never
\* decrease, and for them only.
C34_ReplicasNegativeExactlyOnDecrease ==
    GotStep =>
        IF NoCanarySteps(instance) THEN out.step.Replicas = <<replicasTotal(instance)>>
        ELSE LET targets == replicasList(instance) IN
             /\ Len(out.step.Replicas) = Len(targets)
             /\ \A k \in 1..Len(targets) :
                   /\ targets[k] >= 0
                   /\ out.step.Replicas[k] >= 0 <=> (k = 1 \/ targets[k] >= targets[k - 1])

\* The Step for 4 replicas and the weights 50 and 25: the targets 2 and 1, the
\* Replicas 2 and -1.
C34_Witness ==
    /\ GotStep
    /\ instance.Spec.Replicas = Ptr(4)
    /\ DeclaredSteps = <<WeightStep(50), WeightStep(25)>>
    /\ out.step.Replicas = <<2, -1>>

\* ----------------------------------------------------- claims: IsHealthy
\* IsHealthy was applied to a fetched rollout and the pods listed for it.
HealthChecked == out.op = "IsHealthy" /\ fetched = "ok" /\ ~pods.err

C20_UnsetReplicasMeansOne ==
    (/\ HealthChecked /\ instance.Spec.Replicas.nil
     /\ instance.Status.CurrentStepIndex.nil)
    => /\ count(instance, pods.Items) = 1 => (out.healthy /\ out.err = ErrNil)
       /\ count(instance, pods.Items) = 0 => ~out.healthy

\* The number of canary steps the rollout declares: none without a canary strategy.
DeclaredStepCount == IF instance.Spec.Strategy.Canary.nil THEN 0
                     ELSE Len(instance.Spec.Strategy.Canary.Steps)

\* C21: when the counted pods are as many as the declared replica count, IsHealthy
\* returns true, without error, for a rollout with no current step index, and
\* otherwise returns whether the index is the number of declared canary steps;
\* this for every rollout, one without a canary strategy included.
C21_HealthyIffFullyPromoted ==
    (/\ HealthChecked /\ ~instance.Spec.Replicas.nil
     /\ count(instance, pods.Items) = instance.Spec.Replicas.v)
    => IF instance.Status.CurrentStepIndex.nil
       THEN out = HealthyRet(TRUE, ErrNil)
       ELSE out = HealthyRet(instance.Status.CurrentStepIndex.v = DeclaredStepCount, ErrNil)

\* C22: when the rollout cannot be found IsHealthy returns true with no error; for
\* any other failure of the fetch, the conversion or the pod list it returns true
\* with the error.
C22_NotFoundIsHealthyWithoutError ==
    out.op = "IsHealthy"
    => /\ fetched = "notFound" => out = HealthyRet(TRUE, ErrNil)
       /\ (fetched \in FetchFailures \ {"notFound"} \/ (fetched = "ok" /\ pods.err))
          => (out.kind = "return" /\ out.healthy /\ out.err # ErrNil)

\* The pod holds every annotation key of the template, with the template's value.
HoldsTemplateAnnotations(pod) ==
    \A k \in DOMAIN instance.Spec.Template.Annotations :
        /\ k \in DOMAIN pod.Annotations
        /\ pod.Annotations[k] = instance.Spec.Template.Annotations[k]

\* C23: a Running pod with the template's spec hash is counted if and only if it
\* holds every annotation key of the template with the same value: what the pod
\* holds beside is ignored, and a template key the pod does not hold disqualifies
\* it, also when the template's value is the empty string.
C23_CountedIffTemplateAnnotationsPresent ==
    HealthChecked
    => \A k \in 1..Len(pods.Items) :
          (/\ pods.Items[k].Status.Phase = "Running"
           /\ computePodSpecHash(pods.Items[k].Spec)
                = computePodSpecHash(instance.Spec.Template.Spec))
          => (PodMatches(instance, pods.Items[k]) <=> HoldsTemplateAnnotations(pods.Items[k]))

\* -------------------------------------------------------- claims: Action
\* The latest call of Action was given the name a; the object it was given; the
\* object the first call was given.
Called(a) == actions # <<>> /\ actions[Len(actions)] = a
Prior == given[Len(given)]
Original == given[1]

\* The object holds a spec and a status, both maps, and converts to a rollout.
WellFormed(u) == Convertible(u) /\ Found(u, "spec") /\ Found(u, "status")

\* The call returned the object it was given, without error.
ActionDone == out = ActionRet(ErrNil) /\ returned = "un"

\* The maps m and n hold the same entries, the keys of ks set aside.
SameExcept(m, n, ks) ==
    /\ DOMAIN m \ ks = DOMAIN n \ ks
    /\ \A k \in DOMAIN m \ ks : m[k] = n[k]

\* The object holds what the latest call was given, the keys specKeys of spec and
\* statusKeys of status set aside.
Frame(specKeys, statusKeys) ==
    /\ DOMAIN un = DOMAIN Prior
    /\ SameExcept(un.spec.m, Prior.spec.m, specKeys)
    /\ SameExcept(un.status.m, Prior.status.m, statusKeys)

\* C24: Action("pause") on an object with spec and status sets spec.paused to
\* true and changes no other field: status.pauseConditions,
\* status.currentStepIndex and status.autoPromote are as they were.
C24_PauseSetsPausedOnly ==
    (Called("pause") /\ WellFormed(Prior))
    => /\ ActionDone
       /\ "paused" \in DOMAIN un.spec.m /\ un.spec.m.paused = TRUE
       /\ Frame({"paused"}, {})

C24_Witness ==
    /\ Called("pause") /\ ActionDone
    /\ Has(Prior, "spec", "paused") /\ Prior.spec.m.paused = FALSE
    /\ Has(Prior, "status", "pauseConditions")
    /\ Has(Prior, "status", "currentStepIndex")
    /\ Has(Prior, "status", "autoPromote")
    /\ un.spec.m.paused = TRUE
    /\ un.status = Prior.status

\* C25: Action("resume") and Action("promote") each remove
\* status.pauseConditions and set spec.paused to false, and change nothing
\* else: status.currentStepIndex and status.autoPromote keep their values.
C25_ResumeAndPromoteUnpause ==
    ((Called("resume") \/ Called("promote")) /\ WellFormed(Prior))
    => /\ ActionDone
       /\ "paused" \in DOMAIN un.spec.m /\ un.spec.m.paused = FALSE
       /\ "pauseConditions" \notin DOMAIN un.status.m
       /\ Frame({"paused"}, {"pauseConditions"})

C25_Witness ==
    /\ Called("resume") /\ ActionDone
    /\ Has(Prior, "spec", "paused") /\ Prior.spec.m.paused = TRUE
    /\ Has(Prior, "status", "pauseConditions")
    /\ Has(Prior, "status", "currentStepIndex")
    /\ Has(Prior, "status", "autoPromote")
    /\ un.spec.m.paused = FALSE
    /\ ~Has(un, "status", "pauseConditions")
    /\ un.status.m.currentStepIndex = Prior.status.m.currentStepIndex
    /\ un.status.m.autoPromote = Prior.status.m.autoPromote

\* C26: for every action name other than resume, pause, promote-full, promote,
\* auto-promote and cancel-auto-promote, Action fails with InvalidArgument and
\* the object it was given is as it was.
C26_UnknownActionFailsUnmodified ==
    (/\ actions # <<>>
     /\ actions[Len(actions)] \notin {"resume", "pause", "promote-full", "promote",
                                      "auto-promote", "cancel-auto-promote"})
    => /\ out.kind = "return" /\ out.err \in ActionErrors
       /\ un = Prior

C26_Witness ==
    /\ Called("restart") /\ WellFormed(Prior)
    /\ out = ActionRet(ErrUnsupportedAction)
    /\ un = Prior

\* C27: for every object with a spec and a status, Action("promote-full") sets
\* spec.paused to false, removes status.pauseConditions and sets
\* status.currentStepIndex to the number of canary steps declared, 0 when none
\* is declared, and does not fail.
C27_PromoteFullSetsIndexToStepCount ==
    (Called("promote-full") /\ WellFormed(Prior))
    => /\ ActionDone
       /\ "paused" \in DOMAIN un.spec.m /\ un.spec.m.paused = FALSE
       /\ "pauseConditions" \notin DOMAIN un.status.m
       /\ "currentStepIndex" \in DOMAIN un.status.m
       /\ un.status.m.currentStepIndex
            = (IF Has(Prior, "spec", "strategy")
                  /\ "canary" \in DOMAIN Prior.spec.m.strategy
                  /\ "steps" \in DOMAIN Prior.spec.m.strategy.canary
               THEN Len(Prior.spec.m.strategy.canary.steps) ELSE 0)

\* C28: Action("auto-promote") sets status.autoPromote to true, removes
\* status.pauseConditions and sets spec.paused to false;
\* Action("cancel-auto-promote") removes status.autoPromote and changes nothing
\* else; so after auto-promote followed by cancel-auto-promote the object holds
\* no autoPromote, paused is false and there are no pauseConditions, whatever
\* the object first held.
C28_AutoPromoteThenCancel ==
    /\ (Called("auto-promote") /\ WellFormed(Prior))
       => /\ ActionDone
          /\ "autoPromote" \in DOMAIN un.status.m /\ un.status.m.autoPromote = TRUE
          /\ "pauseConditions" \notin DOMAIN un.status.m
          /\ "paused" \in DOMAIN un.spec.m /\ un.spec.m.paused = FALSE
    /\ (Called("cancel-auto-promote") /\ WellFormed(Prior))
       => /\ ActionDone
          /\ "autoPromote" \notin DOMAIN un.status.m
          /\ Frame({}, {"autoPromote"})
    /\ (actions = <<"auto-promote", "cancel-auto-promote">> /\ WellFormed(Original))
       => /\ ActionDone
          /\ "autoPromote" \notin DOMAIN un.status.m
          /\ "pauseConditions" \notin DOMAIN un.status.m
          /\ un.spec.m.paused = FALSE

C28_Witness ==
    /\ actions = <<"auto-promote", "cancel-auto-promote">> /\ ActionDone
    /\ Has(Original, "spec", "paused") /\ Original.spec.m.paused = TRUE
    /\ Has(Original, "status", "pauseConditions")
    /\ ~Has(Original, "status", "autoPromote")
    /\ Has(Prior, "status", "autoPromote") /\ Prior.status.m.autoPromote = TRUE
    /\ ~Has(un, "status", "autoPromote")
    /\ ~Has(un, "status", "pauseConditions")
    /\ un.spec.m.paused = FALSE

\* C29: when the object holds no spec map or no status map, Action fails with
\* InvalidArgument for every action name, and the object is as it was.
C29_MissingSpecOrStatusFails ==
    (actions # <<>> /\ (~Found(Prior, "spec") \/ ~Found(Prior, "status")))
    => /\ out.kind = "return" /\ out.err \in ActionErrors
       /\ un = Prior

C29_Witness ==
    /\ Called("pause")
    /\ Found(Prior, "spec") /\ "status" \notin DOMAIN Prior
    /\ out = ActionRet(ErrStatusNotFound) /\ returned = "nil"
    /\ un = Prior

\* ----------------------------------- claims: validateApplicationName
\* C30: validateApplicationName accepts a name if and only if the name is not
\* empty, is shorter than 40 characters, does not begin with a digit and matches
\* ^(([a-z][-a-z0-9]*)?[a-z0-9])?$ ; every other name is rejected with
\* ErrParamInvalid.
C30_AcceptsExactlyShortPatternNames ==
    out.op = "validateApplicationName"
    => /\ out.err = ErrNil
          <=> /\ Len(name) # 0
              /\ Len(name) < 40
              /\ name[1] \notin Digit
              /\ MatchString(name)
       /\ out.err # ErrNil => out.err \in NameErrors

\* ------------------------------------- claims: application controller
\* The log l holds a call of the collaborator function call.
Made(l, call) == \E k \in 1..Len(l) : l[k].call = call
\* In the log l the call first comes directly before the call second, and
\* returned an error of the set errs.
DirectlyBefore(l, first, errs, second) ==
    \E k \in 1..(Len(l) - 1) :
        l[k].call = first /\ l[k].err \in errs /\ l[k + 1].call = second
Creations == {"CreateApplication", "CreateApplicationV2"}

\* C35: a call of CreateApplication or CreateApplicationV2 that fails by
\* validation or by ErrNameConflict, or that is made while a group or an
\* application of the same name exists, makes no call that writes the Git
\* repository or creates the database record and leaves both as they were; a
\* call that has looked up a group or an application of the same name without
\* error returns ErrNameConflict; and a call that creates the database record
\* has written the Git repository, without error, directly before, so that the
\* name of a record it adds is in the Git repository.
C35_CreateWritesGitBeforeDatabase ==
    [][LET l == invocation'.log
           n == invocation'.name
           exists == n \in GroupNames \/ n \in applicationMgr
       IN  invocation'.op \in Creations =>
             /\ (invocation'.err \in ValidationErrors \cup {ErrNameConflict} \/ exists) =>
                  /\ ~Made(l, "applicationGitRepo.CreateOrUpdateApplication")
                  /\ ~Made(l, "applicationMgr.Create")
                  /\ applicationGitRepo' = applicationGitRepo
                  /\ applicationMgr' = applicationMgr
             /\ ( /\ exists
                  /\ l # <<>>
                  /\ l[Len(l)].call \in {"groupMgr.GetByNameOrPathUnderParent",
                                         "applicationMgr.GetByName"}
                  /\ l[Len(l)].err = ErrNil ) => invocation'.err = ErrNameConflict
             /\ Made(l, "applicationMgr.Create") =>
                  DirectlyBefore(l, "applicationGitRepo.CreateOrUpdateApplication", {ErrNil},
                         "applicationMgr.Create")
             /\ applicationMgr' # applicationMgr =>
                  /\ applicationMgr' = applicationMgr \cup {n}
                  /\ n \in applicationGitRepo'
                  /\ Made(l, "applicationMgr.Create")]_vars

\* A call of CreateApplicationV2 found the application an earlier call had
\* created, with its Git repository, and returned ErrNameConflict.
C35_Witness ==
    /\ invocation.op = "CreateApplicationV2"
    /\ invocation.err = ErrNameConflict
    /\ invocation.name \in applicationMgr \cap applicationGitRepo
    /\ invocation.log[Len(invocation.log)] = Did("applicationMgr.GetByName")

\* C36: a call of CreateApplication that returns no response returns an error
\* that is not nil.
C36_NoResponseMeansError ==
    (invocation.op = "CreateApplication" /\ invocation.kind = "return" /\ ~invocation.resp)
        => invocation.err # ErrNil

\* C37: a call of UpdateApplication with a request without TemplateInput
\* makes no call that writes the Git repository and, once UpdateByID has
\* returned without error, returns the application and no error.
C37_UpdateWithoutTemplateInputReturns ==
    (invocation.op = "UpdateApplication" /\ ~invocation.templateInput) =>
        /\ ~Made(invocation.log, "applicationGitRepo.CreateOrUpdateApplication")
        /\ (\E k \in 1..Len(invocation.log) :
                invocation.log[k] = Did("applicationMgr.UpdateByID")) =>
             /\ invocation.kind = "return"
             /\ invocation.resp
             /\ invocation.err = ErrNil

\* The collaborator calls of DeleteApplication that delete.
Deletions ==
    {"memberManager.HardDeleteMemberByResourceTypeID",
     "applicationRegionMgr.UpsertByApplicationID", "applicationGitRepo.HardDeleteApplication",
     "applicationMgr.DeleteByID"}

\* C38: a call of DeleteApplication to which ListByApplicationID reported at
\* least one cluster returns the ErrParamInvalid error, makes none of the
\* calls that delete, and leaves members, Git repository and database as
\* they were; a call that deletes the database record has deleted the Git
\* repository directly before, without error or, in hard mode only, with
\* NotFound; and a call removes no record but the one it is given.
C38_DeleteOnlyWithoutClustersAfterGit ==
    [][LET l == invocation'.log
       IN  invocation'.op = "DeleteApplication" =>
             /\ (\E k \in 1..Len(l) : l[k].count > 0) =>
                  /\ invocation'.err = ErrClustersExist
                  /\ \A call \in Deletions : ~Made(l, call)
                  /\ memberManager' = memberManager
                  /\ applicationGitRepo' = applicationGitRepo
                  /\ applicationMgr' = applicationMgr
             /\ Made(l, "applicationMgr.DeleteByID") =>
                  DirectlyBefore(l, "applicationGitRepo.HardDeleteApplication",
                         IF invocation'.hard THEN {ErrNil, ErrNotFound} ELSE {ErrNil},
                         "applicationMgr.DeleteByID")
             /\ applicationMgr' # applicationMgr =>
                  /\ applicationMgr' = applicationMgr \ {invocation'.name}
                  /\ Made(l, "applicationMgr.DeleteByID")]_vars

\* A hard deletion removed the record of an application whose Git repository
\* was gone already: the Git repository reported NotFound.
C38_Witness ==
    /\ invocation.op = "DeleteApplication"
    /\ invocation.hard
    /\ invocation.err = ErrNil
    /\ invocation.name \notin applicationMgr
    /\ DirectlyBefore(invocation.log, "applicationGitRepo.HardDeleteApplication", {ErrNotFound},
              "applicationMgr.DeleteByID")

====
